---- MODULE Spec2Model ----
(***************************************************************************)
(* A model of cap-std-ext: the atomic file replacement protocol of         *)
(* src/src/dirext.rs (atomic_replace_with, atomic_write,                    *)
(* atomic_write_with_perms) and the recursive directory walk (walk,        *)
(* walk_inner).                                                            *)
(*                                                                         *)
(* The file system is one directory d (the parent directory of the         *)
(* destination, as returned by subdir_of) with its entries, an inode       *)
(* table, and the entry found at d/<destname> when destname has a parent   *)
(* component.  Every call is a process whose program counter walks through *)
(* the statements of atomic_replace_with; any fallible statement may fail. *)
(***************************************************************************)
EXTENDS Integers, Sequences, FiniteSets, TLC

\* ---------------------------------------------------------------- bounds

\* Longest content a writer produces (bytes).
ContentLen == 2

\* ---------------------------------------------------------------- constants

\* 0o600, the mode atomic_write_with_perms sets before writing.
Mode600 == 384

Procs == {1, 2}

\* Permission bits used in the model: 0o600, 0o640, 0o644, 0o700, 0o755.
OldModes == {420, 448}
NewModes == {416, 493}
TargetMode == 493
DefaultModes == {384, 420}

None == "None"

\* Absent permissions (Option::None of a mode) and the result of reading a name
\* that does not resolve (io::ErrorKind::NotFound).
NoMode == 0 - 1
NotFound == <<0 - 1>>

\* Names in the directory d: the destination, a symlink target, and the
\* random scratch names (one per call; a collision is retried with a fresh
\* name, so two calls never hold the same scratch name).
DestName == "f"
TargetName == "t"
\* Mutants of ScratchName: the temp file is created under the destination name
\* (writing in place); every call uses one fixed scratch name.
ScratchName_InPlace(p) == DestName
ScratchName_Fixed(p) == "tmp1"
ScratchName(p) == IF p = 1 THEN "tmp1" ELSE "tmp2"
Names == {DestName, TargetName} \cup {ScratchName(p) : p \in Procs}

\* Inodes: the pre-existing destination file, the symlink target, the file at
\* d/<destname> and one temp file per call.
TmpIno(p) == IF p = 1 THEN "ino_tmp1" ELSE "ino_tmp2"
Inos == {"ino_old", "ino_target", "ino_nested"} \cup {TmpIno(p) : p \in Procs}

NoEntry == [kind |-> "none", ino |-> None, target |-> None]
FileEntry(i) == [kind |-> "file", ino |-> i, target |-> None]
LinkEntry(t) == [kind |-> "symlink", ino |-> None, target |-> t]

\* The bytes call p writes: p's own byte values, so that contents of two
\* calls and the old content never share a byte.
Byte(p, i) == 10 * p + i
ContentOf(p, n) == [i \in 1..n |-> Byte(p, i)]
OldData == <<1, 2>>
TargetData == <<3>>

VARIABLES
    dir,            \* entries of d: name -> entry
    nested,         \* the entry at d/<destname> (destname with a parent component)
    inode,          \* inode table: ino -> [data, mode]
    destname,       \* the destination path as given: <<"f">> or <<"sub", "f">>
    tmpfile_ok,     \* whether the file system supports O_TMPFILE
    default_mode,   \* mode of a new temp file (0o666 or 0o600 under the umask)
    pc,             \* per call: the statement of atomic_replace_with it is at
    op,             \* per call: "write", "write_with_perms" or "replace_with"
    contents,       \* per call: the bytes its writer produces
    perms,          \* per call: the permissions given to atomic_write_with_perms
    existing_perms, \* per call: local existing_perms
    tempname,       \* per call: the temp file's scratch name, or None
    written,        \* per call: number of bytes the writer has passed to write
    bufw,           \* per call: the BufWriter's buffer
    res,            \* per call: None while running, "ok" or the error returned
    pre_read,       \* history: what reading the destination yielded before the calls
    pre_dir,        \* history: the entries of d before the calls
    renames,        \* history: calls in the order of their renames
    faults,         \* history: number of injected IO failures
    w_cfg,          \* walk: the WalkConfiguration [noxdev, sorted, path_base]
    w_pc,           \* walk: "idle", "list" (at d.entries()), "loop" or "done"
    w_stack,        \* walk: the walk_inner activations, [dir, rest]; the last is running
    w_path,         \* walk: the PathBuf `path`
    w_calls,        \* walk history: the callback invocations [node, path, flow]
    w_listing,      \* walk history: per directory, its entries in iteration order
    w_opened,       \* walk history: the child directories opened
    w_res,          \* walk: None while running, "ok", "E_callback" or "E_io"
    w_iofail,       \* walk history: whether an IO operation failed
    r_link,         \* root: target of the symlink etc/auth.json of the root
    r_dlink,        \* root: target of the symlink lnk of the root
    r_passwd,       \* root: whether etc/passwd exists inside the root
    r_pc,           \* root: "idle", "openat2", "opened" or "done"
    r_method,       \* root: the RootDir method called
    r_path,         \* root: the path given, [abs, comps]
    r_tries,        \* root history: times openat2 returned EAGAIN or EINTR
    r_res,          \* root: what open_beneath_rdonly returned, [err, loc, links]
    r_out,          \* root: what the method returned, [kind, err, loc, data]
    r_plain,        \* root: what the same lookup through the plain Dir returned
    r_gone,         \* root: the locations removed by remove_file or remove_all
    r_made,         \* root: the directories created by ensure_dir_with
    r_recursive,    \* root: whether the DirBuilder given is recursive
    r_prev,         \* root history: what the call before a repeated call returned
    t_nested,       \* tempfile: whether the target has a parent directory ("sub/f")
    t_noname,       \* tempfile: whether the target has no file name ("" or "sub/..")
    t_otmp,         \* tempfile: what openat(O_TMPFILE) yields: "ok", "OPNOTSUPP", "EIO"
    t_ents,         \* tempfile: per directory and name, the inode linked (0: none)
    t_ino,          \* tempfile: per inode, [data, mode]
    t_pc,           \* tempfile: "new", "held", "set_permissions", "tempname",
                    \*           "renameat", "drop" or "done"
    t_method,       \* tempfile: the method that consumed the object, or "drop"
    t_perms,        \* tempfile: local permissions of replace_with_perms
    t_subdir,       \* tempfile: field subdir, None or "sub"
    t_tempname,     \* tempfile: field tempname, None or the scratch name
    t_local,        \* tempfile: local tempname of replace_with_perms
    t_res,          \* tempfile: None, "ok" or the error returned
    t_pre,          \* tempfile history: t_ents before new_in
    t_fault,        \* tempfile history: whether an IO failure was injected
    x_attrs,        \* xattr: the extended attributes of each file, by key
    x_written,      \* xattr history: the value the last successful setxattr was given
    x_pc,           \* xattr: position of the call
    x_method,       \* xattr: the method called
    x_path,         \* xattr: its path
    x_key,          \* xattr: its key
    x_value,        \* xattr: its value (setxattr)
    x_cap,          \* xattr: capacity of the read buffer
    x_sys,          \* xattr history: attribute syscalls issued by the call
    x_out,          \* xattr: what the call returned
    c_fds,          \* command: descriptor table of the parent
    c_hooks,        \* command: the pre-exec hooks registered, in order
    c_pc,           \* command: position (building, child, execd, failed)
    c_next,         \* command: index of the next hook to run in the child
    c_child,        \* command: descriptor table of the child
    c_last,         \* command history: the child's table before the last hook
    n_pc,           \* creation: position of the call (idle, openat, loop, done)
    n_fn,           \* creation: new_tempfile or generate_name_in
    n_attempts,     \* creation: the attempts counter of the loop
    n_tries,        \* creation history: names tried by the call
    n_last,         \* creation history: what the last try of a name answered
    n_first,        \* creation history: what the anonymous open of the call answered
    n_res,          \* creation: what the call returned
    n_unsupp,       \* creation history: an anonymous open of the process was unsupported
    n_reprobe,      \* creation history: an anonymous open was attempted after that
    n_calls         \* creation history: calls made by the process

fsvars == <<dir, nested, inode, destname, tmpfile_ok, default_mode>>
procvars == <<pc, op, contents, perms, existing_perms, tempname, written, bufw, res>>
histvars == <<pre_read, pre_dir, renames, faults>>
replvars == <<fsvars, procvars, histvars>>
walkvars == <<w_cfg, w_pc, w_stack, w_path, w_calls, w_listing, w_opened, w_res, w_iofail>>
rootvars == <<r_link, r_dlink, r_passwd, r_pc, r_method, r_path, r_tries, r_res, r_out,
              r_plain, r_gone, r_made, r_recursive, r_prev>>
linkvars == <<t_nested, t_noname, t_otmp, t_ents, t_ino, t_pc, t_method, t_perms, t_subdir,
              t_tempname, t_local, t_res, t_pre, t_fault>>
xattrvars == <<x_attrs, x_written, x_pc, x_method, x_path, x_key, x_value, x_cap,
               x_sys, x_out>>
cmdvars == <<c_fds, c_hooks, c_pc, c_next, c_child, c_last>>
tempvars == <<n_pc, n_fn, n_attempts, n_tries, n_last, n_first, n_res, n_unsupp,
              n_reprobe, n_calls>>
notrepl == <<walkvars, rootvars, linkvars, xattrvars, cmdvars, tempvars>>
notwalk == <<replvars, rootvars, linkvars, xattrvars, cmdvars, tempvars>>
notroot == <<replvars, walkvars, linkvars, xattrvars, cmdvars, tempvars>>
notlink == <<replvars, walkvars, rootvars, xattrvars, cmdvars, tempvars>>
notxattr == <<replvars, walkvars, rootvars, linkvars, cmdvars, tempvars>>
notcmd == <<replvars, walkvars, rootvars, linkvars, xattrvars, tempvars>>
nottemp == <<replvars, walkvars, rootvars, linkvars, xattrvars, cmdvars>>
vars == <<replvars, walkvars, rootvars, linkvars, xattrvars, cmdvars, tempvars>>

\* ---------------------------------------------------------------- file system

\* Dir::symlink_metadata of a path relative to d (not following symlinks).
SymlinkMetadata(path) ==
    IF Len(path) = 1 THEN dir[path[1]] ELSE nested

\* Dir::read of name in d: follows one symlink; NotFound when absent/broken.
ReadOf(dents, inodes, n) ==
    LET e == dents[n] IN
    CASE e.kind = "file" -> inodes[e.ino].data
      [] e.kind = "symlink" ->
            IF dents[e.target].kind = "file"
            THEN inodes[dents[e.target].ino].data
            ELSE NotFound
      [] OTHER -> NotFound

Read(n) == ReadOf(dir, inode, n)

\* Mode of the file a name in d resolves to (Dir::metadata).
ModeOf(n) ==
    LET e == dir[n] IN
    CASE e.kind = "file" -> inode[e.ino].mode
      [] e.kind = "symlink" /\ dir[e.target].kind = "file" -> inode[dir[e.target].ino].mode
      [] OTHER -> NoMode

\* ---------------------------------------------------------------- the walked tree

\* The directory tree beneath the walk root ".": directories a, a/c and m (m
\* is the mount point of another file system), regular files and a symbolic
\* link a/l that points back to the root.
Root == "."
Tree ==
    ("a"     :> [parent |-> ".",   name |-> "a", kind |-> "dir",     target |-> None, xdev |-> FALSE]) @@
    ("a/c"   :> [parent |-> "a",   name |-> "c", kind |-> "dir",     target |-> None, xdev |-> FALSE]) @@
    ("a/c/g" :> [parent |-> "a/c", name |-> "g", kind |-> "file",    target |-> None, xdev |-> FALSE]) @@
    ("a/c/h" :> [parent |-> "a/c", name |-> "h", kind |-> "file",    target |-> None, xdev |-> FALSE]) @@
    ("a/f"   :> [parent |-> "a",   name |-> "f", kind |-> "file",    target |-> None, xdev |-> FALSE]) @@
    ("a/l"   :> [parent |-> "a",   name |-> "l", kind |-> "symlink", target |-> ".", xdev |-> FALSE]) @@
    ("b"     :> [parent |-> ".",   name |-> "b", kind |-> "file",    target |-> None, xdev |-> FALSE]) @@
    ("m"     :> [parent |-> ".",   name |-> "m", kind |-> "dir",     target |-> None, xdev |-> TRUE]) @@
    ("m/p"   :> [parent |-> "m",   name |-> "p", kind |-> "file",    target |-> None, xdev |-> FALSE])

Nodes == DOMAIN Tree
Dirs == {Root} \cup {n \in Nodes : Tree[n].kind = "dir"}
Children(d) == {n \in Nodes : Tree[n].parent = d}
\* Mutant of IsDir: the type is taken from metadata that follows symlinks.
IsDir_FollowsLinks(n) ==
    \/ Tree[n].kind = "dir"
    \/ Tree[n].kind = "symlink" /\ Tree[n].target \in Dirs

\* entry.file_type()?.is_dir(): the type of the entry itself, a symbolic link
\* to a directory is not a directory.
IsDir(n) == Tree[n].kind = "dir"

\* The directory that opening entry n yields (open_dir follows a symlink).
ResolveDir(n) == IF Tree[n].kind = "symlink" THEN Tree[n].target ELSE n

\* Whether node n lies beneath directory d, at any depth.
RECURSIVE IsBeneath(_, _)
IsBeneath(n, d) ==
    IF n = Root THEN FALSE
    ELSE Tree[n].parent = d \/ IsBeneath(Tree[n].parent, d)

\* Byte order of file names, as OsString::cmp orders them.
NameOrder == <<"a", "b", "c", "f", "g", "h", "l", "m", "p">>
NameIndex(nm) == CHOOSE i \in 1..Len(NameOrder) : NameOrder[i] = nm

\* sort_by_file_name's comparator: a.file_name().cmp(&b.file_name()) is Less.
SorterLess(x, y) == NameIndex(Tree[x].name) < NameIndex(Tree[y].name)

\* All orders in which read_dir may return the entries of a set.
Perms(S) ==
    {q \in [1..Cardinality(S) -> S] : \A i, j \in 1..Cardinality(S) : q[i] = q[j] => i = j}

WalkIdle ==
    /\ w_cfg = [noxdev |-> FALSE, sorted |-> FALSE, path_base |-> <<>>]
    /\ w_pc = "idle"
    /\ w_stack = <<>>
    /\ w_path = <<>>
    /\ w_calls = <<>>
    /\ w_listing = [d \in Dirs |-> <<>>]
    /\ w_opened = {}
    /\ w_res = None
    /\ w_iofail = FALSE

\* ---------------------------------------------------------------------------
\* RootDir (src/src/rootdir.rs): lookups confined to a root directory.
\*
\* The file system is a map from locations (the names from the host's root
\* directory down) to objects.  The RootDir's directory is /td of the host;
\* the host has an /etc/passwd of its own outside of it.
MaxAgain == 2
MaxSymlinks == 4

\* The most pre-exec hooks registered on one Command.
MaxHooks == 2

\* The width in bits the u32 attempts counter is scaled to, and the most
\* temp-file creations of one process.
AttemptBits == 3
MaxCreates == 3

RootLoc == <<"td">>
NoLoc == <<"">>
Target(abs, comps) == [abs |-> abs, comps |-> comps]
NoTarget == Target(FALSE, <<>>)
DirObj == [kind |-> "dir", data |-> <<>>, target |-> NoTarget]
FileObj(data) == [kind |-> "file", data |-> data, target |-> NoTarget]
LinkObj(t) == [kind |-> "link", data |-> <<>>, target |-> t]

HostData == <<104>>
AuthData == <<97, 117>>
PasswdData == <<255>>

\* Where the symlink etc/auth.json of the root may point.
LinkTargets ==
    { Target(TRUE, <<"usr", "lib", "auth.json">>),
      Target(FALSE, <<"..", "usr", "lib", "auth.json">>),
      Target(FALSE, <<"..", "..", "etc", "passwd">>),
      Target(TRUE, <<"..", "etc", "passwd">>),
      Target(TRUE, <<"etc", "passwd">>),
      Target(FALSE, <<"auth.json">>),
      Target(FALSE, <<"missing">>) }

\* Where the symlink lnk of the root may point.
DirLinkTargets ==
    { Target(TRUE, <<"usr", "lib">>),
      Target(FALSE, <<"usr", "lib">>),
      Target(FALSE, <<"..", "etc">>),
      Target(TRUE, <<"etc">>) }

\* The paths given to the methods.
Path(abs, comps) == [abs |-> abs, comps |-> comps]
Paths ==
    { Path(TRUE, <<"etc", "auth.json">>),
      Path(FALSE, <<"etc", "auth.json">>),
      Path(FALSE, <<"usr", "lib", "auth.json">>),
      Path(FALSE, <<"lnk", "auth.json">>),
      Path(FALSE, <<"lnk", "passwd">>),
      Path(FALSE, <<"..", "etc", "passwd">>),
      Path(FALSE, <<"etc", "passwd">>),
      Path(FALSE, <<"etc">>),
      Path(FALSE, <<"usr", "lib">>),
      Path(FALSE, <<"lnk">>),
      Path(FALSE, <<"nodir", "sub">>),
      Path(FALSE, <<"foo">>) }

FsOf(link, dlink, passwd) ==
    LET base ==
            (<<>> :> DirObj) @@
            (<<"etc">> :> DirObj) @@
            (<<"etc", "passwd">> :> FileObj(HostData)) @@
            (<<"td">> :> DirObj) @@
            (<<"td", "etc">> :> DirObj) @@
            (<<"td", "etc", "auth.json">> :> LinkObj(link)) @@
            (<<"td", "lnk">> :> LinkObj(dlink)) @@
            (<<"td", "usr">> :> DirObj) @@
            (<<"td", "usr", "lib">> :> DirObj) @@
            (<<"td", "usr", "lib", "auth.json">> :> FileObj(AuthData))
    IN  IF passwd
        THEN base @@ (<<"td", "etc", "passwd">> :> FileObj(PasswdData))
        ELSE base

\* The file system before any call, and fs with the directories of made.
PreFs == FsOf(r_link, r_dlink, r_passwd)
FsPlus(fs, made) == [l \in DOMAIN fs \cup made |-> IF l \in made THEN DirObj ELSE fs[l]]

Fs == FsPlus([l \in DOMAIN PreFs \ r_gone |-> PreFs[l]], r_made)

Parent(loc) == IF loc = <<>> THEN <<>> ELSE SubSeq(loc, 1, Len(loc) - 1)

\* Whether location loc is the root directory or lies beneath it.
Inside(loc) ==
    /\ Len(loc) >= Len(RootLoc)
    /\ SubSeq(loc, 1, Len(RootLoc)) = RootLoc

\* Mutants of Up: `..` in the root directory leads to the root's parent; `..`
\* in the root directory is refused in every mode.
Up_Unclamped(mode, cur) == Parent(cur)

Up_Rejects(mode, cur) == IF cur = RootLoc THEN NoLoc ELSE Parent(cur)

\* Where `..` leads from directory cur.  Under RESOLVE_IN_ROOT the root
\* directory is its own parent; the plain Dir refuses to leave its directory.
Up(mode, cur) ==
    IF cur = RootLoc
    THEN (IF mode = "in_root" THEN RootLoc ELSE NoLoc)
    ELSE Parent(cur)

\* Mutant of AbsBase: an absolute path starts at the host's root directory.
AbsBase_HostRoot(mode) == <<>>

\* Where an absolute path or an absolute symlink target starts.  Under
\* RESOLVE_IN_ROOT that is the root directory; the plain Dir refuses it.
AbsBase(mode) == IF mode = "in_root" THEN RootLoc ELSE NoLoc

ResErr(e, links) == [err |-> e, loc |-> <<>>, links |-> links]

\* The error of a lookup that would leave the directory: cap-std's escape
\* attempt for the plain Dir, EXDEV for openat2 with RESOLVE_BENEATH.
EscapeErr(mode) == IF mode = "beneath" THEN "EscapeAttempt" ELSE "EXDEV"

\* Path resolution, one component at a time, following every symlink (the
\* last component's too: no O_NOFOLLOW), up to MaxSymlinks of them.
RECURSIVE WalkPath(_, _, _, _, _, _)
WalkPath(fs, mode, cur, comps, hops, links) ==
    IF comps = <<>> THEN [err |-> "ok", loc |-> cur, links |-> links]
    ELSE IF fs[cur].kind # "dir" THEN ResErr("ENOTDIR", links)
    ELSE IF Head(comps) = ".." THEN
        IF Up(mode, cur) = NoLoc THEN ResErr(EscapeErr(mode), links)
        ELSE WalkPath(fs, mode, Up(mode, cur), Tail(comps), hops, links)
    ELSE LET nxt == Append(cur, Head(comps)) IN
        IF nxt \notin DOMAIN fs THEN ResErr("ENOENT", links)
        ELSE IF fs[nxt].kind # "link"
        THEN WalkPath(fs, mode, nxt, Tail(comps), hops, links)
        ELSE IF hops = MaxSymlinks THEN ResErr("ELOOP", links)
        ELSE LET t == fs[nxt].target
                 from == IF t.abs THEN AbsBase(mode) ELSE cur
             IN  IF from = NoLoc THEN ResErr(EscapeErr(mode), links)
                 ELSE WalkPath(fs, mode, from, t.comps \o Tail(comps),
                               hops + 1, links \cup {nxt})

\* The lookup of path from the root directory in the given mode: "in_root" is
\* openat2 with RESOLVE_IN_ROOT, "beneath" the plain Dir's own lookup.
Lookup(fs, mode, path) ==
    LET from == IF path.abs THEN AbsBase(mode) ELSE RootLoc IN
    IF from = NoLoc THEN ResErr(EscapeErr(mode), {})
    ELSE WalkPath(fs, mode, from, path.comps, 0, {})

\* The lookup that does not follow a symlink in the last component
\* (symlink_metadata, remove_file).
LookupNoFollow(fs, mode, path) ==
    LET n == Len(path.comps)
        par == Lookup(fs, mode, Path(path.abs, SubSeq(path.comps, 1, n - 1)))
        nxt == Append(par.loc, path.comps[n])
    IN  IF par.err # "ok" THEN par
        ELSE IF fs[par.loc].kind # "dir" THEN ResErr("ENOTDIR", par.links)
        ELSE IF nxt \notin DOMAIN fs THEN ResErr("ENOENT", par.links)
        ELSE [err |-> "ok", loc |-> nxt, links |-> par.links]

\* mkdirat through the plain Dir: the parent is looked up, the name must not
\* exist (a symlink of that name exists).  [err, loc, made].
CreateDirOne(fs, path) ==
    LET n == Len(path.comps)
        par == Lookup(fs, "beneath", Path(path.abs, SubSeq(path.comps, 1, n - 1)))
        nxt == Append(par.loc, path.comps[n])
    IN  IF par.err # "ok" THEN [err |-> par.err, loc |-> <<>>, made |-> {}]
        ELSE IF fs[par.loc].kind # "dir" THEN [err |-> "ENOTDIR", loc |-> <<>>, made |-> {}]
        ELSE IF nxt \in DOMAIN fs THEN [err |-> "EEXIST", loc |-> <<>>, made |-> {}]
        ELSE [err |-> "ok", loc |-> nxt, made |-> {nxt}]

\* create_dir_all of a recursive DirBuilder: missing parents are created
\* first, and a failure on a path that is a directory (symlinks followed) is
\* a success.
RECURSIVE CreateDirAll(_, _)
CreateDirAll(fs, path) ==
    LET one == CreateDirOne(fs, path)
        isdir == LET r == Lookup(fs, "beneath", path)
                 IN  r.err = "ok" /\ fs[r.loc].kind = "dir"
    IN  IF one.err = "ok" THEN one
        ELSE IF one.err # "ENOENT"
        THEN (IF isdir THEN [err |-> "ok", loc |-> <<>>, made |-> {}] ELSE one)
        ELSE IF Len(path.comps) = 1 THEN one
        ELSE LET up == CreateDirAll(fs, Path(path.abs, SubSeq(path.comps, 1, Len(path.comps) - 1)))
                 again == CreateDirOne(FsPlus(fs, up.made), path)
             IN  IF up.err # "ok" THEN up
                 ELSE [again EXCEPT !.made = @ \cup up.made]

\* self.create_dir_with(p, builder).
CreateDirWith(fs, path, recursive) ==
    IF recursive THEN CreateDirAll(fs, path) ELSE CreateDirOne(fs, path)

\* Mutant of RemoveAllStat: the metadata that follows symlinks.
RemoveAllStat_Follows(fs, path) == Lookup(fs, "beneath", path)

\* self.symlink_metadata_optional(path) of remove_all_optional.
RemoveAllStat(fs, path) == LookupNoFollow(fs, "beneath", path)

\* The locations at loc and beneath it.
Subtree(fs, loc) ==
    {l \in DOMAIN fs : Len(l) >= Len(loc) /\ SubSeq(l, 1, Len(loc)) = loc}

\* The directories of the root that are mount points of another file system.
MountPoints == {<<"td", "usr", "lib">>}

\* What openat2 can answer, transient errors aside, to impl_open_dir_noxdev:
\* O_DIRECTORY | O_NOFOLLOW with RESOLVE_NO_XDEV | RESOLVE_BENEATH.  A symlink
\* as the last component is refused with ELOOP or ENOTDIR.
NoxdevAnswers(fs, path) ==
    LET r == LookupNoFollow(fs, "beneath_no_xdev", path) IN
    IF r.err # "ok" THEN {r}
    ELSE IF \E m \in MountPoints : Len(r.loc) >= Len(m) /\ SubSeq(r.loc, 1, Len(m)) = m
    THEN {ResErr("EXDEV", r.links)}
    ELSE IF fs[r.loc].kind = "link" THEN {ResErr("ELOOP", r.links), ResErr("ENOTDIR", r.links)}
    ELSE IF fs[r.loc].kind # "dir" THEN {ResErr("ENOTDIR", r.links)}
    ELSE {r}

Transient == {"EAGAIN", "EINTR"}

\* Mutant of IsRetried: only EAGAIN is retried.
IsRetried_OnlyAgain(e) == e = "EAGAIN"

\* Err(Errno::AGAIN | Errno::INTR) => continue 'start.
IsRetried(e) == e \in Transient

NoRes == ResErr(None, {})
Out(kind, err, loc, data) == [kind |-> kind, err |-> err, loc |-> loc, data |-> data]
NoOut == Out(None, None, <<>>, <<>>)
ErrOut(e) == Out("Err", e, <<>>, <<>>)

\* std::str::from_utf8 on the bytes of the model's files.
IsUtf8(data) == \A i \in 1..Len(data) : data[i] < 128

\* File::read_to_end, and the conversion of read_to_string.
ReadToEnd(fs, loc) ==
    IF fs[loc].kind = "dir" THEN ErrOut("EISDIR")
    ELSE Out("Bytes", "ok", loc, fs[loc].data)

ReadToString(fs, loc) ==
    IF fs[loc].kind = "dir" THEN ErrOut("EISDIR")
    ELSE IF ~IsUtf8(fs[loc].data) THEN ErrOut("InvalidData")
    ELSE Out("String", "ok", loc, fs[loc].data)

\* Mutant of MapOptional: every error becomes None.
MapOptional_AnyError(out) == IF out.kind = "Err" THEN Out("None", "ok", <<>>, <<>>) ELSE out

\* map_optional: NotFound becomes None, anything else is passed on.
MapOptional(out) == IF out.err = "ENOENT" THEN Out("None", "ok", <<>>, <<>>) ELSE out

RootMethods == {"open", "open_optional", "read", "read_to_string"}

\* The optional methods of CapStdExtDirExt for Dir.
DirMethods ==
    {"Dir::open_optional", "open_dir_optional", "metadata_optional",
     "symlink_metadata_optional", "remove_file_optional"}

\* The operation of the plain Dir that the optional method wraps: open,
\* open_dir, metadata, symlink_metadata or remove_file.
DirOp(fs, method, path) ==
    LET r == IF method \in {"symlink_metadata_optional", "remove_file_optional"}
             THEN LookupNoFollow(fs, "beneath", path)
             ELSE Lookup(fs, "beneath", path)
    IN  IF r.err # "ok" THEN r
        ELSE IF method = "open_dir_optional" /\ fs[r.loc].kind # "dir"
        THEN ResErr("ENOTDIR", r.links)
        ELSE IF method = "remove_file_optional" /\ fs[r.loc].kind = "dir"
        THEN ResErr("EISDIR", r.links)
        ELSE r

\* What the optional method makes of the operation's result r.
DirOut(method, r) ==
    IF method = "remove_file_optional"
    THEN (IF r.err = "ok" THEN Out("True", "ok", r.loc, <<>>)
          ELSE IF r.err = "ENOENT" THEN Out("False", "ok", <<>>, <<>>)
          ELSE ErrOut(r.err))
    ELSE MapOptional(IF r.err = "ok"
                     THEN Out(IF method = "Dir::open_optional" THEN "File"
                              ELSE IF method = "open_dir_optional" THEN "Dir"
                              ELSE "Metadata", "ok", r.loc, <<>>)
                     ELSE ErrOut(r.err))

\* What the RootDir method returns, given what open_beneath_rdonly returned.
MethodOut(fs, method, r) ==
    LET opened == IF r.err = "ok" THEN Out("File", "ok", r.loc, <<>>) ELSE ErrOut(r.err) IN
    CASE method = "open" -> opened
      [] method = "open_optional" -> MapOptional(opened)
      [] method = "read" -> IF r.err = "ok" THEN ReadToEnd(fs, r.loc) ELSE opened
      [] method = "read_to_string" -> IF r.err = "ok" THEN ReadToString(fs, r.loc) ELSE opened
      [] method = "open_dir_noxdev" ->
            IF r.err = "ok" THEN Out("Dir", "ok", r.loc, <<>>)
            ELSE IF r.err = "EXDEV" THEN Out("None", "ok", <<>>, <<>>)
            ELSE opened

\* ensure_dir_with after create_dir_with returned c: true when it succeeded,
\* on AlreadyExists false for a directory and an error for anything else.
EnsureOut(fs, path, c) ==
    LET st == LookupNoFollow(fs, "beneath", path) IN
    IF c.err = "ok" THEN Out("True", "ok", c.loc, <<>>)
    ELSE IF c.err # "EEXIST" THEN ErrOut(c.err)
    ELSE IF st.err # "ok" THEN ErrOut(st.err)
    ELSE IF fs[st.loc].kind # "dir" THEN ErrOut("NonDirectory")
    ELSE Out("False", "ok", st.loc, <<>>)

RootIdle ==
    /\ r_link = Target(TRUE, <<"usr", "lib", "auth.json">>)
    /\ r_dlink = Target(TRUE, <<"usr", "lib">>)
    /\ r_passwd = FALSE
    /\ r_pc = "idle"
    /\ r_method = None
    /\ r_path = Path(FALSE, <<>>)
    /\ r_tries = 0
    /\ r_res = NoRes
    /\ r_out = NoOut
    /\ r_plain = NoOut
    /\ r_gone = {}
    /\ r_made = {}
    /\ r_recursive = FALSE
    /\ r_prev = NoOut

\* ---------------------------------------------------------------------------
\* LinkableTempfile (src/src/tempfile.rs).
\*
\* Two directories: "dir" (field dir) and "sub" (the target's parent, when the
\* target has one).  Inode 1 is an existing destination, 2 the temp file, 3 an
\* unrelated file that happens to bear a scratch name in "dir".
TDirs == {"dir", "sub"}
TDest == "f"
ScratchNames == {"u1", "u2"}
TNames == {TDest} \cup ScratchNames
OldIno == 1
TmpFileIno == 2
OtherIno == 3
NoIno == 0
NewData == <<7>>
NoFile == [data |-> <<>>, mode |-> NoMode]

\* The directory the target's file name is in (the local `subdir` of new_in
\* and of replace_with_perms).
Where(has_parent) == IF has_parent THEN "sub" ELSE "dir"

\* Mutant of SelfSubdir: the field dir, whether or not subdir is set.
SelfSubdir_AlwaysDir(subdir) == "dir"

\* self.subdir(): self.subdir.as_ref().unwrap_or(self.dir).
SelfSubdir(subdir) == IF subdir = None THEN "dir" ELSE subdir

\* Mutant of CanLink: linkat replaces an existing name.
CanLink_Always(ents, d, n) == TRUE

\* linkat and create_new succeed only on a name that does not exist.
CanLink(ents, d, n) == ents[d][n] = NoIno

\* Mutant of Unlinked: the unlinkat of Drop removes nothing.
Unlinked_Keeps(ents, d, n) == ents

\* The entries after unlinkat(d, n); an error (no such name) is ignored.
Unlinked(ents, d, n) == [ents EXCEPT ![d][n] = NoIno]

Linked(ents, d, n, i) == [ents EXCEPT ![d][n] = i]

\* Mutant of DefaultPermissions: 0o600 whatever the destination.
DefaultPermissions_Always600(ents, inodes, d) == Mode600

\* default_permissions(): the mode of an existing destination, else 0o600.
DefaultPermissions(ents, inodes, d) ==
    IF ents[d][TDest] = NoIno THEN Mode600 ELSE inodes[ents[d][TDest]].mode

LinkIdle ==
    /\ t_nested = FALSE
    /\ t_noname = FALSE
    /\ t_otmp = "ok"
    /\ t_ents = [d \in TDirs |-> [n \in TNames |-> NoIno]]
    /\ t_ino = [i \in {OldIno, TmpFileIno, OtherIno} |-> NoFile]
    /\ t_pc = "idle"
    /\ t_method = None
    /\ t_perms = NoMode
    /\ t_subdir = None
    /\ t_tempname = None
    /\ t_local = None
    /\ t_res = None
    /\ t_pre = [d \in TDirs |-> [n \in TNames |-> NoIno]]
    /\ t_fault = FALSE


\* ---------------------------------------------------------------- xattrs

\* The capacity of the buffers getxattr and listxattrs start with.
GetxattrCap == 256
ListxattrCap == 512

\* A value of n bytes.
Bytes(n, b) == [i \in 1..n |-> (b + i) % 251]

\* No attribute of that key.
NoValue == <<0 - 1>>

\* The attribute values written: short, exactly the first buffer, one byte
\* more, and more than twice the first buffer.
XValues == {<<115, 118>>, Bytes(256, 1), Bytes(257, 2), Bytes(600, 3)}

\* The attribute keys, as bytes ("u.a", "u.b"), in the order the kernel lists them.
KeyOrder == <<(<<117, 46, 97>>), (<<117, 46, 98>>)>>
XKeys == {KeyOrder[i] : i \in 1..Len(KeyOrder)}

\* The files of the directory ("." and foo), and the paths given.
XFiles == {<<>>, <<"foo">>}
XPaths ==
    { Path(FALSE, <<".">>),
      Path(FALSE, <<"foo">>),
      Path(FALSE, <<"nofile">>),
      Path(TRUE, <<"foo">>),
      Path(TRUE, <<>>),
      Path(FALSE, <<"..", "foo">>),
      Path(FALSE, <<"foo", "..", "foo">>) }

XMethods == {"getxattr", "setxattr", "listxattrs"}

\* Mutant of ValidateRelpathNoUplinks: only absolute paths are refused.
ValidateRelpathNoUplinks_AbsoluteOnly(path) ==
    IF path.abs THEN "PermissionDenied" ELSE "ok"

\* validate_relpath_no_uplinks: absolute paths and paths with a ParentDir
\* component are escape_attempt(), a PermissionDenied error.
ValidateRelpathNoUplinks(path) ==
    IF path.abs \/ (\E i \in 1..Len(path.comps) : path.comps[i] = "..")
    THEN "PermissionDenied"
    ELSE "ok"

\* The file /proc/self/fd/N/path names.
NotDot(c) == c # "."
XFile(path) == SelectSeq(path.comps, NotDot)

\* lgetxattr into a buffer of cap bytes.
Lgetxattr(attrs, path, key, cap) ==
    LET f == XFile(path) IN
    IF f \notin XFiles THEN [err |-> "ENOENT", buf |-> <<>>]
    ELSE IF attrs[f][key] = NoValue THEN [err |-> "ENODATA", buf |-> <<>>]
    ELSE IF Len(attrs[f][key]) > cap THEN [err |-> "ERANGE", buf |-> <<>>]
    ELSE [err |-> "ok", buf |-> attrs[f][key]]

\* The names of the attributes of f, each followed by a NUL.
RECURSIVE ListBuf(_, _, _)
ListBuf(attrs, f, i) ==
    IF i > Len(KeyOrder) THEN <<>>
    ELSE (IF attrs[f][KeyOrder[i]] = NoValue THEN <<>> ELSE KeyOrder[i] \o <<0>>)
         \o ListBuf(attrs, f, i + 1)

\* llistxattr into a buffer of cap bytes.
Llistxattr(attrs, path, cap) ==
    LET f == XFile(path) IN
    IF f \notin XFiles THEN [err |-> "ENOENT", buf |-> <<>>]
    ELSE IF Len(ListBuf(attrs, f, 1)) > cap THEN [err |-> "ERANGE", buf |-> <<>>]
    ELSE [err |-> "ok", buf |-> ListBuf(attrs, f, 1)]

\* self.buf.split(|&v| v == 0): the runs of bytes between NULs, empty runs included.
RECURSIVE SplitNul(_, _)
SplitNul(buf, cur) ==
    IF buf = <<>> THEN <<cur>>
    ELSE IF Head(buf) = 0 THEN <<cur>> \o SplitNul(Tail(buf), <<>>)
    ELSE SplitNul(Tail(buf), Append(cur, Head(buf)))

NotEmpty(v) == v # <<>>

\* Mutant of XattrListIter: empty runs are yielded too.
XattrListIter_KeepsEmpty(buf) == SplitNul(buf, <<>>)

\* XattrList::iter: the split with the empty runs filtered out.
XattrListIter(buf) == SelectSeq(SplitNul(buf, <<>>), NotEmpty)

\* Mutant of GetxattrArm: a buffer that is too small is an error.
GetxattrArm_RangeIsError(e) ==
    CASE e = "ok" -> "some"
      [] e = "ENODATA" -> "none"
      [] OTHER -> "err"

\* The match of impl_getxattr on what lgetxattr returned.
GetxattrArm(e) ==
    CASE e = "ok" -> "some"
      [] e = "ENODATA" -> "none"
      [] e = "ERANGE" -> "grow"
      [] OTHER -> "err"

\* buf.reserve(buf.capacity().saturating_mul(2)) on an empty buffer.
Reserve(cap) == 2 * cap

XattrIdle ==
    /\ x_attrs = [f \in XFiles |-> [k \in XKeys |-> NoValue]]
    /\ x_written = [f \in XFiles |-> [k \in XKeys |-> NoValue]]
    /\ x_pc = "idle"
    /\ x_method = None
    /\ x_path = Path(FALSE, <<>>)
    /\ x_key = <<>>
    /\ x_value = <<>>
    /\ x_cap = 0
    /\ x_sys = 0
    /\ x_out = NoOut

\* ---------------------------------------------------------------- command

\* Descriptor numbers of the process, the first number past its limit, and
\* the open files.
CFds == 3..5
FdLimit == 6
CFiles == {1, 2}

Closed == [file |-> 0, cloexec |-> FALSE]
OpenFd(f, ce) == [file |-> f, cloexec |-> ce]
FdTables == [CFds -> {Closed} \cup {OpenFd(f, ce) : f \in CFiles, ce \in BOOLEAN}]

NoHook == [fd |-> 0, target |-> 0]

\* rustix::io::dup2(fd, target): nothing when the numbers are equal, else
\* target becomes a copy of fd without close-on-exec.
Dup2(tab, fd, target) ==
    IF fd = target THEN tab
    ELSE [tab EXCEPT ![target] = OpenFd(tab[fd].file, FALSE)]

\* fcntl_getfd and fcntl_setfd without CLOEXEC.
ClearCloexec(tab, target) == [tab EXCEPT ![target].cloexec = FALSE]

\* Mutant of PreExecHook: dup2 also when the numbers are equal.
PreExecHook_AlwaysDup2(tab, h) == Dup2(tab, h.fd, h.target)

\* The closure take_fd_n registers.
PreExecHook(tab, h) ==
    IF h.target = h.fd THEN ClearCloexec(tab, h.target) ELSE Dup2(tab, h.fd, h.target)

\* execve closes the descriptors with close-on-exec.
AfterExec(tab) == [n \in CFds |-> IF tab[n].cloexec THEN Closed ELSE tab[n]]

CmdIdle ==
    /\ c_fds = [n \in CFds |-> Closed]
    /\ c_hooks = <<>>
    /\ c_pc = "idle"
    /\ c_next = 0
    /\ c_child = [n \in CFds |-> Closed]
    /\ c_last = [n \in CFds |-> Closed]


\* ---------------------------------------------------------------- temp-file creation

\* u32::MAX at the scaled width.
U32Max == 2 ^ AttemptBits - 1

\* attempts.saturating_add(1).
SaturatingAdd(a) == IF a + 1 > U32Max THEN U32Max ELSE a + 1

\* Mutant of Exhausted: the loop has no end.
Exhausted_Never(a) == FALSE

\* if attempts == u32::MAX { return Err(AlreadyExists) }.
Exhausted(a) == a = U32Max

\* What the kernel may answer to the anonymous open, and to the exclusive
\* creation or the link of a new name.
TmpfileAnswers == {"ok", "OPNOTSUPP", "EIO"}
NameAnswers == {"ok", "EEXIST", "EIO"}

\* Mutant of TmpfileArm: the fallback is taken after any error.
TmpfileArm_FallbackOnAnyError(ans) == IF ans = "ok" THEN "file" ELSE "fallback"

\* The match of new_tempfile on the anonymous open.
TmpfileArm(ans) ==
    CASE ans = "ok" -> "file"
      [] ans = "OPNOTSUPP" -> "fallback"
      [] OTHER -> "err"

\* Mutant of TempEntry: a process that has seen OPNOTSUPP skips the anonymous open.
TempEntry_Cached(fn, unsupp) ==
    IF fn = "new_tempfile" /\ ~unsupp THEN "openat" ELSE "loop"

\* The first statement of the function called: new_tempfile begins with the
\* anonymous open, generate_name_in with its loop.
TempEntry(fn, unsupp) == IF fn = "new_tempfile" THEN "openat" ELSE "loop"

TempFns == {"new_tempfile", "generate_name_in"}

TempIdle ==
    /\ n_pc = "idle"
    /\ n_fn = None
    /\ n_attempts = 0
    /\ n_tries = 0
    /\ n_last = None
    /\ n_first = None
    /\ n_res = None
    /\ n_unsupp = FALSE
    /\ n_reprobe = FALSE
    /\ n_calls = 0

\* ---------------------------------------------------------------- initial states

Ops == {"write", "write_with_perms", "replace_with"}

\* The file system before any call: the destination is absent, a regular file
\* or a symbolic link (to an existing file or broken).
InitFs ==
    /\ destname \in {<<DestName>>, <<"sub", DestName>>, <<>>, <<"sub", "..">>}
    /\ tmpfile_ok \in BOOLEAN
    /\ default_mode \in DefaultModes
    /\ \E dest \in {NoEntry, FileEntry("ino_old"), LinkEntry(TargetName)} :
       \E tgt \in {NoEntry, FileEntry("ino_target")} :
          /\ (dest.kind # "symlink") => (tgt = NoEntry)
          /\ dir = [n \in Names |->
                      CASE n = DestName -> dest
                        [] n = TargetName -> tgt
                        [] OTHER -> NoEntry]
    /\ nested \in (IF Len(destname) > 1
                   THEN {NoEntry, FileEntry("ino_nested")}
                   ELSE {NoEntry})
    /\ \E m \in OldModes :
          inode = [i \in Inos |->
                     CASE i = "ino_old" -> [data |-> OldData, mode |-> m]
                       [] i = "ino_target" -> [data |-> TargetData, mode |-> TargetMode]
                       [] i = "ino_nested" -> [data |-> <<>>, mode |-> TargetMode]
                       [] OTHER -> [data |-> <<>>, mode |-> NoMode]]
    /\ (dir[DestName].kind # "file") => (inode["ino_old"].mode = 420)

InitHist ==
    /\ pre_read = Read(DestName)
    /\ pre_dir = dir
    /\ renames = <<>>
    /\ faults = 0

InitLocals ==
    /\ existing_perms = [p \in Procs |-> NoMode]
    /\ tempname = [p \in Procs |-> None]
    /\ written = [p \in Procs |-> 0]
    /\ bufw = [p \in Procs |-> <<>>]
    /\ res = [p \in Procs |-> None]

\* One call, with any operation, content and permissions.
Init ==
    /\ InitFs
    /\ InitHist
    /\ InitLocals
    /\ WalkIdle
    /\ RootIdle
    /\ LinkIdle
    /\ XattrIdle
    /\ CmdIdle
    /\ TempIdle
    /\ pc = [p \in Procs |-> IF p = 1 THEN "subdir_of" ELSE "idle"]
    /\ \E o \in Ops, n \in 0..ContentLen, m \in NewModes :
          /\ op = [p \in Procs |-> IF p = 1 THEN o ELSE None]
          /\ contents = [p \in Procs |-> IF p = 1 THEN ContentOf(1, n) ELSE <<>>]
          /\ perms = [p \in Procs |->
                        IF p = 1 /\ o = "write_with_perms" THEN m ELSE NoMode]
          /\ (o # "write_with_perms") => (m = 416)

\* ---------------------------------------------------------------- atomic_replace_with

\* Mutant of DropTemp: the cleanup unlinks the destination name.
DropTemp_UnlinksDest(p) ==
    [dir EXCEPT ![DestName] = NoEntry]

\* TempFile's Drop: a temp file that still has a scratch name is unlinked.
DropTemp(p) ==
    IF tempname[p] # None
    THEN [dir EXCEPT ![tempname[p]] = NoEntry]
    ELSE dir

\* Mutant of ReturnErr: the temp file is persisted on the error path too.
ReturnErr_Persists(p, e) ==
    /\ dir' = IF tempname[p] # None
              THEN [dir EXCEPT ![DestName] = dir[tempname[p]], ![tempname[p]] = NoEntry]
              ELSE [dir EXCEPT ![DestName] = FileEntry(TmpIno(p))]
    /\ tempname' = [tempname EXCEPT ![p] = None]
    /\ pc' = [pc EXCEPT ![p] = "done"]
    /\ res' = [res EXCEPT ![p] = e]

\* An early return with error e: the temp file is dropped.
ReturnErr(p, e) ==
    /\ dir' = DropTemp(p)
    /\ tempname' = [tempname EXCEPT ![p] = None]
    /\ pc' = [pc EXCEPT ![p] = "done"]
    /\ res' = [res EXCEPT ![p] = e]

\* Where the closure starts.
WriterStart(p) ==
    IF op[p] = "write_with_perms" THEN "w_chmod600" ELSE "w_write"

\* Mutant of FileName: the last component, whatever it is.
FileName_LastComponent(path) == IF path = <<>> THEN None ELSE path[Len(path)]

\* Path::file_name(): None for the empty path and for a path that ends in `..`.
FileName(path) ==
    IF path = <<>> \/ path[Len(path)] = ".." THEN None ELSE path[Len(path)]

\* let (d, name) = subdir_of(self, destname)?;  InvalidInput when the path has
\* no file name, before the parent directory is opened.
SubdirOf(p) ==
    /\ pc[p] = "subdir_of"
    /\ IF FileName(destname) = None
       THEN /\ ReturnErr(p, "InvalidInput")
            /\ UNCHANGED <<nested, inode, destname, tmpfile_ok, default_mode, op,
                           contents, perms, existing_perms, written, bufw, histvars>>
       ELSE /\ pc' = [pc EXCEPT ![p] = "symlink_metadata"]
            /\ UNCHANGED <<fsvars, op, contents, perms, existing_perms, tempname,
                           written, bufw, res, histvars>>
    /\ UNCHANGED notrepl

\* The path whose metadata atomic_replace_with queries, relative to d.
QueriedPath == destname

\* existing_metadata = d.symlink_metadata_optional(destname)?;
\* existing_perms = existing_metadata.filter(|m| m.is_file()).map(|m| m.permissions());
ExistingPerms ==
    LET e == SymlinkMetadata(QueriedPath) IN
    IF e.kind = "file" THEN inode[e.ino].mode ELSE NoMode

QueryExisting(p) ==
    /\ pc[p] = "symlink_metadata"
    /\ existing_perms' = [existing_perms EXCEPT ![p] = ExistingPerms]
    /\ pc' = [pc EXCEPT ![p] = "tempfile_new"]
    /\ UNCHANGED <<fsvars, op, contents, perms, tempname, written, bufw, res,
                   histvars>>
    /\ UNCHANGED notrepl

\* let mut t = cap_tempfile::TempFile::new(&d)?;  anonymous (O_TMPFILE) when the
\* file system supports it, else a randomly named file created exclusively.
TempFileNew(p) ==
    /\ pc[p] = "tempfile_new"
    /\ inode' = [inode EXCEPT ![TmpIno(p)] = [data |-> <<>>, mode |-> default_mode]]
    /\ IF tmpfile_ok
       THEN UNCHANGED <<dir, tempname>>
       ELSE /\ dir' = [dir EXCEPT ![ScratchName(p)] = FileEntry(TmpIno(p))]
            /\ tempname' = [tempname EXCEPT ![p] = ScratchName(p)]
    /\ pc' = [pc EXCEPT ![p] =
                IF existing_perms[p] # NoMode THEN "set_permissions" ELSE WriterStart(p)]
    /\ UNCHANGED <<nested, destname, tmpfile_ok, default_mode, op, contents, perms,
                   existing_perms, written, bufw, res, histvars>>
    /\ UNCHANGED notrepl

\* if let Some(existing_perms) = existing_perms { t.as_file_mut().set_permissions(..)?; }
SetPermissions(p) ==
    /\ pc[p] = "set_permissions"
    /\ inode' = [inode EXCEPT ![TmpIno(p)].mode = existing_perms[p]]
    /\ pc' = [pc EXCEPT ![p] = WriterStart(p)]
    /\ UNCHANGED <<dir, nested, destname, tmpfile_ok, default_mode, op, contents,
                   perms, existing_perms, tempname, written, bufw, res, histvars>>
    /\ UNCHANGED notrepl

\* Mutant of WChmod600: the closure writes without set_permissions(0o600).
WChmod600_Skipped(p) ==
    /\ pc[p] = "w_chmod600"
    /\ pc' = [pc EXCEPT ![p] = "w_write"]
    /\ UNCHANGED <<fsvars, op, contents, perms, existing_perms, tempname, written,
                   bufw, res, histvars>>
    /\ UNCHANGED notrepl

\* atomic_write_with_perms' closure: set_permissions(0o600) before writing.
WChmod600(p) ==
    /\ pc[p] = "w_chmod600"
    /\ inode' = [inode EXCEPT ![TmpIno(p)].mode = Mode600]
    /\ pc' = [pc EXCEPT ![p] = "w_write"]
    /\ UNCHANGED <<dir, nested, destname, tmpfile_ok, default_mode, op, contents,
                   perms, existing_perms, tempname, written, bufw, res, histvars>>
    /\ UNCHANGED notrepl

\* f.write_all(contents): the next byte enters the BufWriter.
WWrite(p) ==
    /\ pc[p] = "w_write"
    /\ written[p] < Len(contents[p])
    /\ written' = [written EXCEPT ![p] = @ + 1]
    /\ bufw' = [bufw EXCEPT ![p] = Append(@, contents[p][written[p] + 1])]
    /\ UNCHANGED <<fsvars, pc, op, contents, perms, existing_perms, tempname, res,
                   histvars>>
    /\ UNCHANGED notrepl

\* The BufWriter writes buffered bytes to the temp file: when its buffer is
\* full during a write, and in flush().
Spill(p) ==
    /\ pc[p] \in {"w_write", "w_flush", "into_inner"}
    /\ bufw[p] # <<>>
    /\ inode' = [inode EXCEPT ![TmpIno(p)].data = Append(@, Head(bufw[p]))]
    /\ bufw' = [bufw EXCEPT ![p] = Tail(@)]
    /\ UNCHANGED <<dir, nested, destname, tmpfile_ok, default_mode, pc, op, contents,
                   perms, existing_perms, tempname, written, res, histvars>>
    /\ UNCHANGED notrepl

\* write_all has taken all of contents; the closure goes on (or returns Ok).
WDone(p) ==
    /\ pc[p] = "w_write"
    /\ written[p] = Len(contents[p])
    /\ pc' = [pc EXCEPT ![p] =
                IF op[p] = "write_with_perms" THEN "w_flush" ELSE "into_inner"]
    /\ UNCHANGED <<fsvars, op, contents, perms, existing_perms, tempname, written,
                   bufw, res, histvars>>
    /\ UNCHANGED notrepl

\* Mutant of WFlush: flush() returns with bytes still in the buffer.
WFlush_Early(p) ==
    /\ pc[p] = "w_flush"
    /\ pc' = [pc EXCEPT ![p] = "w_chmod"]
    /\ UNCHANGED <<fsvars, op, contents, perms, existing_perms, tempname, written,
                   bufw, res, histvars>>
    /\ UNCHANGED notrepl

\* atomic_write_with_perms' closure: f.flush() has emptied the buffer.
WFlush(p) ==
    /\ pc[p] = "w_flush"
    /\ bufw[p] = <<>>
    /\ pc' = [pc EXCEPT ![p] = "w_chmod"]
    /\ UNCHANGED <<fsvars, op, contents, perms, existing_perms, tempname, written,
                   bufw, res, histvars>>
    /\ UNCHANGED notrepl

\* Mutant of WChmod: the closure forgets the final set_permissions(perms).
WChmod_Skipped(p) ==
    /\ pc[p] = "w_chmod"
    /\ pc' = [pc EXCEPT ![p] = "into_inner"]
    /\ UNCHANGED <<fsvars, op, contents, perms, existing_perms, tempname, written,
                   bufw, res, histvars>>
    /\ UNCHANGED notrepl

\* atomic_write_with_perms' closure: set_permissions(perms), then Ok(()).
WChmod(p) ==
    /\ pc[p] = "w_chmod"
    /\ inode' = [inode EXCEPT ![TmpIno(p)].mode = perms[p]]
    /\ pc' = [pc EXCEPT ![p] = "into_inner"]
    /\ UNCHANGED <<dir, nested, destname, tmpfile_ok, default_mode, op, contents,
                   perms, existing_perms, tempname, written, bufw, res, histvars>>
    /\ UNCHANGED notrepl

\* A caller's closure returns its own error at any point (let r = f(&mut bufw)?).
WriterErr(p) ==
    /\ pc[p] = "w_write"
    /\ op[p] = "replace_with"
    /\ ReturnErr(p, "E_writer")
    /\ faults' = faults + 1
    /\ UNCHANGED <<nested, inode, destname, tmpfile_ok, default_mode, op, contents,
                   perms, existing_perms, written, bufw, pre_read, pre_dir, renames>>
    /\ UNCHANGED notrepl

\* Mutant of AfterIntoInner: the temp file is not fsynced before the rename.
AfterIntoInner_SkipsSync(p) == IF tempname[p] = None THEN "generate_name" ELSE "rename"

\* The statement after bufw.into_inner(): t.as_file().sync_all()?.
AfterIntoInner(p) == "sync_all"

\* t = bufw.into_inner().map_err(From::from)?;  the buffer has been flushed.
IntoInner(p) ==
    /\ pc[p] = "into_inner"
    /\ bufw[p] = <<>>
    /\ pc' = [pc EXCEPT ![p] = AfterIntoInner(p)]
    /\ UNCHANGED <<fsvars, op, contents, perms, existing_perms, tempname, written,
                   bufw, res, histvars>>
    /\ UNCHANGED notrepl

\* t.as_file().sync_all()?;
SyncAll(p) ==
    /\ pc[p] = "sync_all"
    /\ pc' = [pc EXCEPT ![p] = IF tempname[p] = None THEN "generate_name" ELSE "rename"]
    /\ UNCHANGED <<fsvars, op, contents, perms, existing_perms, tempname, written,
                   bufw, res, histvars>>
    /\ UNCHANGED notrepl

\* t.replace(name), first half: an anonymous temp file is linked under a
\* random scratch name in d.
GenerateName(p) ==
    /\ pc[p] = "generate_name"
    /\ dir' = [dir EXCEPT ![ScratchName(p)] = FileEntry(TmpIno(p))]
    /\ tempname' = [tempname EXCEPT ![p] = ScratchName(p)]
    /\ pc' = [pc EXCEPT ![p] = "rename"]
    /\ UNCHANGED <<nested, inode, destname, tmpfile_ok, default_mode, op, contents,
                   perms, existing_perms, written, bufw, res, histvars>>
    /\ UNCHANGED notrepl

\* The directory after rename(2) of scratch name from over name to.
RenameOver(from, to) ==
    [dir EXCEPT ![to] = dir[from], ![from] = NoEntry]

\* t.replace(name), second half: the scratch name is renamed over name in d.
Rename(p) ==
    /\ pc[p] = "rename"
    /\ dir' = RenameOver(tempname[p], DestName)
    /\ tempname' = [tempname EXCEPT ![p] = None]
    /\ renames' = Append(renames, p)
    /\ pc' = [pc EXCEPT ![p] = "dir_sync"]
    /\ UNCHANGED <<nested, inode, destname, tmpfile_ok, default_mode, op, contents,
                   perms, existing_perms, written, bufw, res, pre_read, pre_dir, faults>>
    /\ UNCHANGED notrepl

\* d.open(".")?.sync_all()?;  Ok(r)
DirSync(p) ==
    /\ pc[p] = "dir_sync"
    /\ pc' = [pc EXCEPT ![p] = "done"]
    /\ res' = [res EXCEPT ![p] = "ok"]
    /\ UNCHANGED <<fsvars, op, contents, perms, existing_perms, tempname, written,
                   bufw, histvars>>
    /\ UNCHANGED notrepl

\* The statements that end in `?` on an io::Result, and the error each returns.
Fallible ==
    {"symlink_metadata", "tempfile_new", "set_permissions", "w_chmod600", "w_write",
     "w_flush", "w_chmod", "into_inner", "sync_all", "generate_name", "rename",
     "dir_sync"}

ErrOf(l) ==
    CASE l = "subdir_of" -> "E_open_dir"
      [] l = "symlink_metadata" -> "E_metadata"
      [] l = "tempfile_new" -> "E_tempfile"
      [] l \in {"set_permissions", "w_chmod600", "w_chmod"} -> "E_set_permissions"
      [] l \in {"w_write", "w_flush", "into_inner"} -> "E_write"
      [] l = "sync_all" -> "E_sync_all"
      [] l = "generate_name" -> "E_link"
      [] l = "rename" -> "E_rename"
      [] l = "dir_sync" -> "E_dir_sync"

\* Any fallible statement fails: the error is returned by `?` and the temp
\* file is dropped.  (subdir_of fails only when it opens a parent directory.)
Fail(p) ==
    /\ \/ pc[p] \in Fallible
       \/ pc[p] = "subdir_of" /\ Len(destname) > 1 /\ FileName(destname) # None
    /\ ReturnErr(p, ErrOf(pc[p]))
    /\ faults' = faults + 1
    /\ UNCHANGED <<nested, inode, destname, tmpfile_ok, default_mode, op, contents,
                   perms, existing_perms, written, bufw, pre_read, pre_dir, renames>>
    /\ UNCHANGED notrepl

Step(p) ==
    \/ SubdirOf(p)
    \/ QueryExisting(p)
    \/ TempFileNew(p)
    \/ SetPermissions(p)
    \/ WChmod600(p)
    \/ WWrite(p)
    \/ Spill(p)
    \/ WDone(p)
    \/ WFlush(p)
    \/ WChmod(p)
    \/ WriterErr(p)
    \/ IntoInner(p)
    \/ SyncAll(p)
    \/ GenerateName(p)
    \/ Rename(p)
    \/ DirSync(p)
    \/ Fail(p)

Next == \E p \in Procs : Step(p)

Spec == Init /\ [][Next]_vars

\* Two concurrent calls on the same destination name: call 1 with any
\* operation, call 2 an atomic_write; both write ContentLen bytes.
InitRace ==
    /\ InitFs
    /\ destname = <<DestName>>
    /\ default_mode = Mode600
    /\ InitHist
    /\ InitLocals
    /\ WalkIdle
    /\ RootIdle
    /\ LinkIdle
    /\ XattrIdle
    /\ CmdIdle
    /\ TempIdle
    /\ pc = [p \in Procs |-> "subdir_of"]
    /\ \E o \in Ops, m \in NewModes :
          /\ op = [p \in Procs |-> IF p = 1 THEN o ELSE "write"]
          /\ contents = [p \in Procs |-> ContentOf(p, ContentLen)]
          /\ perms = [p \in Procs |->
                        IF p = 1 /\ o = "write_with_perms" THEN m ELSE NoMode]
          /\ (o # "write_with_perms") => (m = 416)

SpecRace == InitRace /\ [][Next]_vars

\* ---------------------------------------------------------------- walk

\* No atomic replacement is going on: one fixed file system, no call.
ReplIdle ==
    /\ destname = <<DestName>>
    /\ tmpfile_ok = TRUE
    /\ default_mode = Mode600
    /\ dir = [n \in Names |-> NoEntry]
    /\ nested = NoEntry
    /\ inode = [i \in Inos |-> [data |-> <<>>, mode |-> NoMode]]
    /\ InitHist
    /\ InitLocals
    /\ pc = [p \in Procs |-> "idle"]
    /\ op = [p \in Procs |-> None]
    /\ contents = [p \in Procs |-> <<>>]
    /\ perms = [p \in Procs |-> NoMode]

\* A walk of the tree under any WalkConfiguration.
InitWalk ==
    /\ ReplIdle
    /\ RootIdle
    /\ LinkIdle
    /\ XattrIdle
    /\ CmdIdle
    /\ TempIdle
    /\ w_cfg \in [noxdev : BOOLEAN, sorted : BOOLEAN, path_base : {<<>>, <<"base">>}]
    /\ w_pc = "idle"
    /\ w_stack = <<>>
    /\ w_path = <<>>
    /\ w_calls = <<>>
    /\ w_listing = [d \in Dirs |-> <<>>]
    /\ w_opened = {}
    /\ w_res = None
    /\ w_iofail = FALSE

Top == w_stack[Len(w_stack)]

\* Mutant of PopPath: the directory's name stays on the path.
PopPath_Keeps(path) == path

PopPath(path) == SubSeq(path, 1, Len(path) - 1)

\* walk(): pb = path_base or empty; walk_inner(self, &mut pb, ..).
WalkCall ==
    /\ w_pc = "idle"
    /\ w_path' = w_cfg.path_base
    /\ w_stack' = <<[dir |-> Root, rest |-> <<>>]>>
    /\ w_pc' = "list"
    /\ UNCHANGED <<w_cfg, w_calls, w_listing, w_opened, w_res, w_iofail, notwalk>>

\* Mutant of EntryOrders: the sorter is ignored.
EntryOrders_Unsorted(d) == Perms(Children(d))

\* The entries of directory d in the order the loop takes them: read_dir's
\* order, or that order sorted by the sorter when one is configured.
EntryOrders(d) ==
    IF w_cfg.sorted
    THEN {SortSeq(q, SorterLess) : q \in Perms(Children(d))}
    ELSE Perms(Children(d))

\* let entries = d.entries()?;  and the sort, at the start of walk_inner.
ListDir ==
    /\ w_pc = "list"
    /\ \E order \in EntryOrders(Top.dir) :
          /\ w_stack' = [w_stack EXCEPT ![Len(w_stack)].rest = order]
          /\ w_listing' = [w_listing EXCEPT ![Top.dir] = order]
    /\ w_pc' = "loop"
    /\ UNCHANGED <<w_cfg, w_path, w_calls, w_opened, w_res, w_iofail, notwalk>>

\* Mutant of ReturnTo: a return ends every activation (the whole walk).
ReturnTo_AbortsWalk(stack) == <<>>

\* The activations left when the running walk_inner returns Ok(()).
ReturnTo(stack) == SubSeq(stack, 1, Len(stack) - 1)

\* walk_inner returns Ok(()) with `path` as given: its caller pops the
\* directory's name and goes on with its loop; walk returns when none is left.
ReturnOk(path) ==
    /\ w_stack' = ReturnTo(w_stack)
    /\ IF w_stack' = <<>>
       THEN /\ w_pc' = "done"
            /\ w_res' = "ok"
            /\ w_path' = path
       ELSE /\ w_pc' = "loop"
            /\ w_res' = w_res
            /\ w_path' = PopPath(path)

\* Mutant of ReturnErrAll: the error ends the running activation only and its
\* caller goes on.
ReturnErrAll_OnlyCurrent(e) ==
    /\ w_stack' = SubSeq(w_stack, 1, Len(w_stack) - 1)
    /\ w_pc' = IF Len(w_stack) = 1 THEN "done" ELSE "loop"
    /\ w_res' = e

\* An error leaves every activation through `?`.
ReturnErrAll(e) ==
    /\ w_stack' = <<>>
    /\ w_pc' = "done"
    /\ w_res' = e

\* The loop of the running walk_inner has no entry left: Ok(()).
LoopEnd ==
    /\ w_pc = "loop"
    /\ Top.rest = <<>>
    /\ ReturnOk(w_path)
    /\ UNCHANGED <<w_cfg, w_calls, w_listing, w_opened, w_iofail, notwalk>>

\* Mutants of Decide: Break on a non-directory goes on with the next entry;
\* Break on a directory returns like Break on a non-directory.
Decide_FileBreakContinues(is_dir, is_break) ==
    IF ~is_dir THEN "continue"
    ELSE (IF is_break THEN "continue" ELSE "descend")

Decide_DirBreakReturns(is_dir, is_break) ==
    IF is_break THEN "return"
    ELSE (IF is_dir THEN "descend" ELSE "continue")

\* What the loop does after the callback returned: "return" Ok(()),
\* "continue" with the next entry, or "descend" into the directory.
Decide(is_dir, is_break) ==
    IF ~is_dir
    THEN (IF is_break THEN "return" ELSE "continue")
    ELSE (IF is_break THEN "continue" ELSE "descend")

\* Mutant of OpenChild: the child is opened whatever file system it is on.
OpenChild_CrossesMounts(n) == ResolveDir(n)

\* Opening the child directory: None when noxdev is set and the child is on
\* another file system (impl_open_dir_noxdev), else the directory.
OpenChild(n) ==
    IF w_cfg.noxdev /\ Tree[n].xdev THEN None ELSE ResolveDir(n)

\* One iteration of the loop: the entry's type and name, path.push, the
\* callback returning flow, and the handling of flow.
Visit(flow) ==
    /\ w_pc = "loop"
    /\ Top.rest # <<>>
    /\ LET e == Head(Top.rest)
           pushed == Append(w_path, Tree[e].name)
           rest == [w_stack EXCEPT ![Len(w_stack)].rest = Tail(@)]
           what == Decide(IsDir(e), flow = "Break")
       IN  /\ w_calls' = Append(w_calls, [node |-> e, path |-> pushed, flow |-> flow])
           /\ CASE what = "return" ->
                     /\ ReturnOk(w_path)
                     /\ UNCHANGED w_opened
                [] what = "continue" ->
                     /\ w_stack' = rest
                     /\ UNCHANGED <<w_path, w_pc, w_res, w_opened>>
                [] what = "descend" /\ OpenChild(e) = None ->
                     /\ w_stack' = rest
                     /\ UNCHANGED <<w_path, w_pc, w_res, w_opened>>
                [] what = "descend" /\ OpenChild(e) # None ->
                     /\ w_stack' = Append(rest, [dir |-> OpenChild(e), rest |-> <<>>])
                     /\ w_opened' = w_opened \cup {e}
                     /\ w_path' = pushed
                     /\ w_pc' = "list"
                     /\ UNCHANGED w_res
    /\ UNCHANGED <<w_cfg, w_listing, w_iofail, notwalk>>

\* What a callback returns without error: ControlFlow::Continue or Break.
Flows == {"Continue", "Break"}

\* let flow = callback(&component)?;  the callback returns an error.
CallbackErr ==
    /\ w_pc = "loop"
    /\ Top.rest # <<>>
    /\ LET e == Head(Top.rest) IN
          w_calls' = Append(w_calls, [node |-> e,
                                      path |-> Append(w_path, Tree[e].name),
                                      flow |-> "Err"])
    /\ ReturnErrAll("E_callback")
    /\ UNCHANGED <<w_cfg, w_path, w_listing, w_opened, w_iofail, notwalk>>

\* d.entries()? (or the collect of a sorted walk) fails, or entry? or
\* entry.file_type()? fails before the callback.
IoFail ==
    /\ \/ w_pc = "list"
       \/ w_pc = "loop" /\ Top.rest # <<>>
    /\ ReturnErrAll("E_io")
    /\ w_iofail' = TRUE
    /\ UNCHANGED <<w_cfg, w_path, w_calls, w_listing, w_opened, notwalk>>

\* entry.open_dir()? or impl_open_dir_noxdev(d, filename)? fails, after the
\* callback returned Continue for a directory.
OpenDirFail ==
    /\ w_pc = "loop"
    /\ Top.rest # <<>>
    /\ IsDir(Head(Top.rest))
    /\ LET e == Head(Top.rest) IN
          w_calls' = Append(w_calls, [node |-> e,
                                      path |-> Append(w_path, Tree[e].name),
                                      flow |-> "Continue"])
    /\ ReturnErrAll("E_io")
    /\ w_iofail' = TRUE
    /\ UNCHANGED <<w_cfg, w_path, w_listing, w_opened, notwalk>>

NextWalk ==
    \/ WalkCall
    \/ ListDir
    \/ LoopEnd
    \/ \E flow \in Flows : Visit(flow)
    \/ CallbackErr
    \/ IoFail
    \/ OpenDirFail

SpecWalk == InitWalk /\ [][NextWalk]_vars

\* walk() is one sequential call: it runs on until it returns.
SpecWalkLive == SpecWalk /\ WF_vars(NextWalk)

\* ---------------------------------------------------------------------------
\* RootDir calls.

\* One method call on a RootDir over any arrangement of the two symlinks.
InitRoot ==
    /\ ReplIdle
    /\ WalkIdle
    /\ LinkIdle
    /\ XattrIdle
    /\ CmdIdle
    /\ TempIdle
    /\ r_link \in LinkTargets
    /\ r_dlink \in DirLinkTargets
    /\ r_passwd \in BOOLEAN
    /\ r_pc = "idle"
    /\ r_method = None
    /\ r_path = Path(FALSE, <<>>)
    /\ r_tries = 0
    /\ r_res = NoRes
    /\ r_out = NoOut
    /\ r_plain = NoOut
    /\ r_gone = {}
    /\ r_made = {}
    /\ r_recursive = FALSE
    /\ r_prev = NoOut

\* RootDir::open / open_optional / read / read_to_string(path): each starts
\* with open_beneath_rdonly(&self.0.as_fd(), path).
RootCall(method, path) ==
    /\ r_pc = "idle"
    /\ r_method' = method
    /\ r_path' = path
    /\ r_pc' = "openat2"
    /\ UNCHANGED <<r_link, r_dlink, r_passwd, r_tries, r_res, r_out, r_plain, r_gone, r_made, r_recursive, r_prev, notroot>>

\* Dir::open_dir_noxdev(path): impl_open_dir_noxdev with openat2_with_retry.
NoxdevCall(path) ==
    /\ r_pc = "idle"
    /\ r_method' = "open_dir_noxdev"
    /\ r_path' = path
    /\ r_pc' = "openat2"
    /\ UNCHANGED <<r_link, r_dlink, r_passwd, r_tries, r_res, r_out, r_plain, r_gone, r_made, r_recursive, r_prev, notroot>>

\* What openat2 can answer to the call under way, transient errors aside.
KernelAnswers ==
    IF r_method = "open_dir_noxdev" THEN NoxdevAnswers(Fs, r_path)
    ELSE {Lookup(Fs, "in_root", r_path)}

\* openat2 returns EAGAIN or EINTR: `continue 'start`.
Openat2Again ==
    /\ r_pc = "openat2"
    /\ \E e \in Transient : IsRetried(e)
    /\ r_tries < MaxAgain
    /\ r_tries' = r_tries + 1
    /\ UNCHANGED <<r_link, r_dlink, r_passwd, r_pc, r_method, r_path, r_res, r_out, r_plain, r_gone, r_made, r_recursive, r_prev, notroot>>

\* openat2 returns the file or another error: open_beneath_rdonly returns it.
Openat2Return ==
    /\ r_pc = "openat2"
    /\ \E a \in KernelAnswers \cup {ResErr(e, {}) : e \in Transient} :
          /\ ~IsRetried(a.err)
          /\ r_res' = a
    /\ r_pc' = "opened"
    /\ UNCHANGED <<r_link, r_dlink, r_passwd, r_method, r_path, r_tries, r_out, r_plain, r_gone, r_made, r_recursive, r_prev, notroot>>

\* The rest of the method: the mapping of open_optional, the read of read and
\* read_to_string.
RootReturn ==
    /\ r_pc = "opened"
    /\ r_out' = MethodOut(Fs, r_method, r_res)
    /\ r_pc' = "done"
    /\ UNCHANGED <<r_link, r_dlink, r_passwd, r_method, r_path, r_tries, r_res, r_plain, r_gone, r_made, r_recursive, r_prev, notroot>>

\* The same path read through the plain Dir: td.read_to_string(path).
DirReadToString ==
    /\ r_pc = "done"
    /\ r_plain = NoOut
    /\ LET r == Lookup(Fs, "beneath", r_path) IN
          r_plain' = IF r.err = "ok" THEN ReadToString(Fs, r.loc) ELSE ErrOut(r.err)
    /\ UNCHANGED <<r_link, r_dlink, r_passwd, r_pc, r_method, r_path, r_tries, r_res, r_out, r_gone, r_made, r_recursive, r_prev, notroot>>

\* An optional method of the plain Dir: the operation, then its mapping;
\* remove_file takes the entry away.
DirCall(method, path) ==
    /\ r_pc = "idle"
    /\ r_method' = method
    /\ r_path' = path
    /\ r_res' = DirOp(Fs, method, path)
    /\ r_out' = DirOut(method, r_res')
    /\ r_gone' = IF method = "remove_file_optional" /\ r_res'.err = "ok"
                 THEN r_gone \cup {r_res'.loc} ELSE r_gone
    /\ r_pc' = "done"
    /\ UNCHANGED <<r_link, r_dlink, r_passwd, r_tries, r_plain, r_made, r_recursive,
                   r_prev, notroot>>

\* remove_all_optional(path): false when symlink_metadata finds nothing,
\* else remove_dir_all for a directory and remove_file for anything else.
RemoveAllOptional(path) ==
    /\ r_pc = "idle"
    /\ r_method' = "remove_all_optional"
    /\ r_path' = path
    /\ LET st == RemoveAllStat(Fs, path)
           at == LookupNoFollow(Fs, "beneath", path)
       IN  /\ r_res' = st
           /\ IF st.err = "ENOENT"
              THEN /\ r_out' = Out("False", "ok", <<>>, <<>>)
                   /\ UNCHANGED r_gone
              ELSE IF st.err # "ok"
              THEN /\ r_out' = ErrOut(st.err)
                   /\ UNCHANGED r_gone
              ELSE /\ r_out' = Out("True", "ok", at.loc, <<>>)
                   /\ r_gone' = r_gone \cup (IF Fs[st.loc].kind = "dir"
                                              THEN Subtree(Fs, at.loc) ELSE {at.loc})
    /\ r_pc' = "done"
    /\ UNCHANGED <<r_link, r_dlink, r_passwd, r_tries, r_plain, r_made, r_recursive,
                   r_prev, notroot>>

\* ensure_dir_with(path, builder), a first time or again directly after.
EnsureDirWith(path, recursive) ==
    /\ \/ r_pc = "idle"
       \/ /\ r_pc = "done"
          /\ r_method = "ensure_dir_with"
          /\ r_path = path
          /\ r_recursive = recursive
          /\ r_prev = NoOut
    /\ r_method' = "ensure_dir_with"
    /\ r_path' = path
    /\ r_recursive' = recursive
    /\ r_prev' = IF r_pc = "done" THEN r_out ELSE NoOut
    /\ LET c == CreateDirWith(Fs, path, recursive) IN
          /\ r_res' = [err |-> c.err, loc |-> c.loc, links |-> {}]
          /\ r_made' = r_made \cup c.made
          /\ r_out' = EnsureOut(FsPlus(Fs, c.made), path, c)
    /\ r_pc' = "done"
    /\ UNCHANGED <<r_link, r_dlink, r_passwd, r_tries, r_plain, r_gone, notroot>>

NextRoot ==
    \/ \E path \in Paths : RemoveAllOptional(path)
    \/ \E path \in Paths, recursive \in BOOLEAN : EnsureDirWith(path, recursive)
    \/ \E method \in RootMethods, path \in Paths : RootCall(method, path)
    \/ \E method \in DirMethods, path \in Paths : DirCall(method, path)
    \/ \E path \in Paths : NoxdevCall(path)
    \/ Openat2Again
    \/ Openat2Return
    \/ RootReturn
    \/ DirReadToString

SpecRoot == InitRoot /\ [][NextRoot]_vars

\* ---------------------------------------------------------------------------
\* LinkableTempfile: creation, finalization and drop.

ReplaceMethods ==
    {"replace", "replace_with_perms", "replace_contents", "replace_contents_using_perms"}

\* One LinkableTempfile for target "f" or "sub/f", the destination absent or
\* a file of either mode, and possibly an unrelated file "u1" in "dir".
InitLink ==
    /\ ReplIdle
    /\ WalkIdle
    /\ RootIdle
    /\ t_nested \in BOOLEAN
    /\ t_noname \in BOOLEAN
    /\ t_otmp \in {"ok", "OPNOTSUPP", "EIO"}
    /\ \E old \in {NoMode} \cup OldModes, other \in BOOLEAN :
          /\ t_ents = [d \in TDirs |-> [n \in TNames |->
                          IF d = Where(t_nested) /\ n = TDest /\ old # NoMode THEN OldIno
                          ELSE IF d = "dir" /\ n = "u1" /\ other THEN OtherIno
                          ELSE NoIno]]
          /\ t_ino = [i \in {OldIno, TmpFileIno, OtherIno} |->
                          IF i = OldIno /\ old # NoMode THEN [data |-> OldData, mode |-> old]
                          ELSE IF i = OtherIno /\ other THEN [data |-> TargetData, mode |-> 420]
                          ELSE NoFile]
    /\ t_pre = t_ents
    /\ t_pc = "new"
    /\ t_method = None
    /\ t_perms = NoMode
    /\ t_subdir = None
    /\ t_tempname = None
    /\ t_local = None
    /\ t_res = None
    /\ t_fault = FALSE
    /\ XattrIdle
    /\ CmdIdle
    /\ TempIdle

\* target.file_name() in new_in: None for a target without file name.
NewInName(noname) == IF noname THEN None ELSE TDest

\* LinkableTempfile::new_in: InvalidInput for a target without file name; else
\* with new_tempfile: the anonymous file, or on
\* OPNOTSUPP a file created under a new name that does not exist yet, both of
\* mode 0o600; any other error is returned.
NewIn ==
    /\ t_pc = "new"
    /\ CASE NewInName(t_noname) = None ->
              /\ t_res' = "InvalidInput"
              /\ t_pc' = "done"
              /\ UNCHANGED <<t_ents, t_ino, t_subdir, t_tempname, t_fault>>
         [] NewInName(t_noname) # None /\ t_otmp = "ok" ->
              /\ t_ino' = [t_ino EXCEPT ![TmpFileIno] = [data |-> <<>>, mode |-> Mode600]]
              /\ t_subdir' = IF t_nested THEN "sub" ELSE None
              /\ t_pc' = "held"
              /\ UNCHANGED <<t_ents, t_tempname, t_res, t_fault>>
         [] NewInName(t_noname) # None /\ t_otmp = "OPNOTSUPP" ->
              /\ \E n \in ScratchNames :
                    /\ CanLink(t_ents, Where(t_nested), n)
                    /\ t_ents' = Linked(t_ents, Where(t_nested), n, TmpFileIno)
                    /\ t_tempname' = n
              /\ t_ino' = [t_ino EXCEPT ![TmpFileIno] = [data |-> <<>>, mode |-> Mode600]]
              /\ t_subdir' = IF t_nested THEN "sub" ELSE None
              /\ t_pc' = "held"
              /\ UNCHANGED <<t_res, t_fault>>
         [] NewInName(t_noname) # None /\ t_otmp = "EIO" ->
              /\ t_res' = "E_io"
              /\ t_fault' = TRUE
              /\ t_pc' = "done"
              /\ UNCHANGED <<t_ents, t_ino, t_subdir, t_tempname>>
    /\ UNCHANGED <<t_nested, t_noname, t_otmp, t_method, t_perms, t_local, t_pre, notlink>>

\* Write for LinkableTempfile: the caller writes to the file before finalizing.
WriteAll ==
    /\ t_pc = "held"
    /\ t_ino[TmpFileIno].data = <<>>
    /\ t_ino' = [t_ino EXCEPT ![TmpFileIno].data = NewData]
    /\ UNCHANGED <<t_nested, t_noname, t_otmp, t_ents, t_pc, t_method, t_perms, t_subdir,
                   t_tempname, t_local, t_res, t_pre, t_fault, notlink>>

\* The object goes out of scope with no finalization method called.
DropUnfinalized ==
    /\ t_pc = "held"
    /\ t_method' = "drop"
    /\ t_pc' = "drop"
    /\ UNCHANGED <<t_nested, t_noname, t_otmp, t_ents, t_ino, t_perms, t_subdir,
                   t_tempname, t_local, t_res, t_pre, t_fault, notlink>>

\* emplace(): linkat of the open file to the destination name in
\* self.subdir(); self is dropped as the method returns.
Emplace ==
    /\ t_pc = "held"
    /\ t_method' = "emplace"
    /\ IF CanLink(t_ents, SelfSubdir(t_subdir), TDest)
       THEN /\ t_ents' = Linked(t_ents, SelfSubdir(t_subdir), TDest, TmpFileIno)
            /\ t_res' = "ok"
       ELSE /\ t_res' = "AlreadyExists"
            /\ UNCHANGED t_ents
    /\ t_pc' = "drop"
    /\ UNCHANGED <<t_nested, t_noname, t_otmp, t_ino, t_perms, t_subdir,
                   t_tempname, t_local, t_pre, t_fault, notlink>>

\* replace, replace_contents, replace_with_perms, replace_contents_using_perms
\* up to `self.subdir.take()`: the contents variants write first, the default
\* variants compute default_permissions().
ReplaceStart(method, p) ==
    /\ t_pc = "held"
    /\ t_method' = method
    /\ t_ino' = IF method \in {"replace_contents", "replace_contents_using_perms"}
                THEN [t_ino EXCEPT ![TmpFileIno].data = @ \o NewData]
                ELSE t_ino
    /\ t_perms' = IF method \in {"replace", "replace_contents"}
                  THEN DefaultPermissions(t_ents, t_ino, SelfSubdir(t_subdir))
                  ELSE p
    /\ t_subdir' = None
    /\ t_pc' = "set_permissions"
    /\ UNCHANGED <<t_nested, t_noname, t_otmp, t_ents, t_tempname, t_local, t_res, t_pre,
                   t_fault, notlink>>

\* self.fd.set_permissions(permissions)?
FdSetPermissions ==
    /\ t_pc = "set_permissions"
    /\ t_ino' = [t_ino EXCEPT ![TmpFileIno].mode = t_perms]
    /\ t_pc' = "tempname"
    /\ UNCHANGED <<t_nested, t_noname, t_otmp, t_ents, t_method, t_perms, t_subdir,
                   t_tempname, t_local, t_res, t_pre, t_fault, notlink>>

\* self.tempname.take(), or generate_name_in(subdir, &self.fd)? which links
\* the anonymous file under a new name that does not exist yet.
TakeTempname ==
    /\ t_pc = "tempname"
    /\ IF t_tempname # None
       THEN /\ t_local' = t_tempname
            /\ UNCHANGED t_ents
       ELSE \E n \in ScratchNames :
                /\ CanLink(t_ents, Where(t_nested), n)
                /\ t_ents' = Linked(t_ents, Where(t_nested), n, TmpFileIno)
                /\ t_local' = n
    /\ t_tempname' = None
    /\ t_pc' = "renameat"
    /\ UNCHANGED <<t_nested, t_noname, t_otmp, t_ino, t_method, t_perms, t_subdir,
                   t_res, t_pre, t_fault, notlink>>

\* renameat(subdir, &tempname, subdir, self.name) succeeds.
Renameat ==
    /\ t_pc = "renameat"
    /\ t_ents' = [t_ents EXCEPT ![Where(t_nested)][TDest] = TmpFileIno,
                                ![Where(t_nested)][t_local] = NoIno]
    /\ t_res' = "ok"
    /\ t_pc' = "drop"
    /\ UNCHANGED <<t_nested, t_noname, t_otmp, t_ino, t_method, t_perms, t_subdir,
                   t_tempname, t_local, t_pre, t_fault, notlink>>

\* A step of a finalization method fails: proc_self_fd or linkat of emplace,
\* write_all or default_permissions (before the take of subdir),
\* set_permissions, generate_name_in, or renameat, which hands the name back
\* to self.tempname.  The error is returned and self dropped.
FinalizeFail ==
    /\ \/ /\ t_pc = "held"
          /\ t_method' \in ReplaceMethods \cup {"emplace"}
          /\ UNCHANGED t_tempname
       \/ /\ t_pc \in {"set_permissions", "tempname"}
          /\ UNCHANGED <<t_method, t_tempname>>
       \/ /\ t_pc = "renameat"
          /\ t_tempname' = t_local
          /\ UNCHANGED t_method
    /\ t_res' = "E_io"
    /\ t_fault' = TRUE
    /\ t_pc' = "drop"
    /\ UNCHANGED <<t_nested, t_noname, t_otmp, t_ents, t_ino, t_perms, t_subdir,
                   t_local, t_pre, notlink>>

\* Drop for LinkableTempfile.
DropLinkable ==
    /\ t_pc = "drop"
    /\ t_ents' = IF t_tempname = None THEN t_ents
                 ELSE Unlinked(t_ents, SelfSubdir(t_subdir), t_tempname)
    /\ t_tempname' = None
    /\ t_pc' = "done"
    /\ UNCHANGED <<t_nested, t_noname, t_otmp, t_ino, t_method, t_perms, t_subdir,
                   t_local, t_res, t_pre, t_fault, notlink>>

NextLink ==
    \/ NewIn
    \/ WriteAll
    \/ DropUnfinalized
    \/ Emplace
    \/ \E method \in ReplaceMethods, p \in NewModes : ReplaceStart(method, p)
    \/ FdSetPermissions
    \/ TakeTempname
    \/ Renameat
    \/ FinalizeFail
    \/ DropLinkable

SpecLink == InitLink /\ [][NextLink]_vars

\* One call of either kind: an atomic replacement or a LinkableTempfile.
InitNames == Init \/ InitLink
NextNames == Next \/ NextLink
SpecNames == InitNames /\ [][NextNames]_vars

\* ---------------------------------------------------------------- xattr actions

InitXattr ==
    /\ ReplIdle
    /\ WalkIdle
    /\ RootIdle
    /\ LinkIdle
    /\ XattrIdle
    /\ CmdIdle
    /\ TempIdle

\* getxattr, setxattr, listxattrs up to proc_self_path: a path that fails the
\* validation returns at once, else the buffer is allocated.
XattrCall(method, path, key, value) ==
    /\ x_pc = "idle"
    /\ x_method' = method
    /\ x_path' = path
    /\ x_key' = IF method = "listxattrs" THEN <<>> ELSE key
    /\ x_value' = IF method = "setxattr" THEN value ELSE <<>>
    /\ x_sys' = 0
    /\ IF ValidateRelpathNoUplinks(path) # "ok"
       THEN /\ x_pc' = "done"
            /\ x_out' = ErrOut(ValidateRelpathNoUplinks(path))
            /\ x_cap' = 0
       ELSE /\ x_pc' = "syscall"
            /\ x_out' = NoOut
            /\ x_cap' = CASE method = "getxattr" -> GetxattrCap
                          [] method = "listxattrs" -> ListxattrCap
                          [] OTHER -> 0
    /\ UNCHANGED <<x_attrs, x_written, notxattr>>

\* One turn of the loop of impl_getxattr.
GetxattrTry ==
    /\ x_pc = "syscall"
    /\ x_method = "getxattr"
    /\ x_sys' = x_sys + 1
    /\ LET r == Lgetxattr(x_attrs, x_path, x_key, x_cap)
           arm == GetxattrArm(r.err)
       IN  CASE arm = "some" ->
                   /\ x_out' = Out("Some", "ok", <<>>, r.buf)
                   /\ x_pc' = "done"
                   /\ UNCHANGED x_cap
             [] arm = "none" ->
                   /\ x_out' = Out("None", "ok", <<>>, <<>>)
                   /\ x_pc' = "done"
                   /\ UNCHANGED x_cap
             [] arm = "grow" ->
                   /\ x_cap' = Reserve(x_cap)
                   /\ UNCHANGED <<x_out, x_pc>>
             [] OTHER ->
                   /\ x_out' = ErrOut(r.err)
                   /\ x_pc' = "done"
                   /\ UNCHANGED x_cap
    /\ UNCHANGED <<x_attrs, x_written, x_method, x_path, x_key, x_value, notxattr>>

\* One turn of the loop of impl_listxattrs.
ListxattrTry ==
    /\ x_pc = "syscall"
    /\ x_method = "listxattrs"
    /\ x_sys' = x_sys + 1
    /\ LET r == Llistxattr(x_attrs, x_path, x_cap) IN
          IF r.err = "ok"
          THEN /\ x_out' = Out("List", "ok", <<>>, r.buf)
               /\ x_pc' = "done"
               /\ UNCHANGED x_cap
          ELSE IF r.err = "ERANGE"
          THEN /\ x_cap' = Reserve(x_cap)
               /\ UNCHANGED <<x_out, x_pc>>
          ELSE /\ x_out' = ErrOut(r.err)
               /\ x_pc' = "done"
               /\ UNCHANGED x_cap
    /\ UNCHANGED <<x_attrs, x_written, x_method, x_path, x_key, x_value, notxattr>>

\* impl_setxattr: lsetxattr with empty flags.
SetxattrDo ==
    /\ x_pc = "syscall"
    /\ x_method = "setxattr"
    /\ x_sys' = x_sys + 1
    /\ LET f == XFile(x_path) IN
          IF f \in XFiles
          THEN /\ x_attrs' = [x_attrs EXCEPT ![f][x_key] = x_value]
               /\ x_written' = [x_written EXCEPT ![f][x_key] = x_value]
               /\ x_out' = Out("Unit", "ok", <<>>, <<>>)
          ELSE /\ x_out' = ErrOut("ENOENT")
               /\ UNCHANGED <<x_attrs, x_written>>
    /\ x_pc' = "done"
    /\ UNCHANGED <<x_method, x_path, x_key, x_value, x_cap, notxattr>>

\* The caller takes the result.
XattrReturn ==
    /\ x_pc = "done"
    /\ x_pc' = "idle"
    /\ x_method' = None
    /\ x_path' = Path(FALSE, <<>>)
    /\ x_key' = <<>>
    /\ x_value' = <<>>
    /\ x_cap' = 0
    /\ x_sys' = 0
    /\ x_out' = NoOut
    /\ UNCHANGED <<x_attrs, x_written, notxattr>>

NextXattr ==
    \/ \E method \in XMethods, path \in XPaths, key \in XKeys, value \in XValues :
           XattrCall(method, path, key, value)
    \/ GetxattrTry
    \/ ListxattrTry
    \/ SetxattrDo
    \/ XattrReturn

SpecXattr == InitXattr /\ [][NextXattr]_vars

\* ---------------------------------------------------------------- command actions

\* A Command in a process with some descriptors open.
InitCmd ==
    /\ ReplIdle
    /\ WalkIdle
    /\ RootIdle
    /\ LinkIdle
    /\ XattrIdle
    /\ TempIdle
    /\ c_fds \in FdTables
    /\ \E n \in CFds : c_fds[n] # Closed
    /\ c_hooks = <<>>
    /\ c_pc = "building"
    /\ c_next = 0
    /\ c_child = [n \in CFds |-> Closed]
    /\ c_last = [n \in CFds |-> Closed]

\* take_fd_n(fd, target): the closure is registered with pre_exec.
TakeFdN(fd, target) ==
    /\ c_pc = "building"
    /\ Len(c_hooks) < MaxHooks
    /\ c_fds[fd] # Closed
    /\ c_hooks' = Append(c_hooks, [fd |-> fd, target |-> target])
    /\ UNCHANGED <<c_fds, c_pc, c_next, c_child, c_last, notcmd>>

\* spawn: the child starts with a copy of the parent's table.
Spawn ==
    /\ c_pc = "building"
    /\ c_pc' = "child"
    /\ c_next' = 1
    /\ c_child' = c_fds
    /\ UNCHANGED <<c_fds, c_hooks, c_last, notcmd>>

\* The child runs the next closure; a target past the limit makes dup2 fail
\* and the child gives up.
PreExec ==
    /\ c_pc = "child"
    /\ c_next <= Len(c_hooks)
    /\ c_last' = c_child
    /\ c_next' = c_next + 1
    /\ IF c_hooks[c_next].target >= FdLimit
       THEN /\ c_pc' = "failed"
            /\ UNCHANGED c_child
       ELSE /\ c_child' = PreExecHook(c_child, c_hooks[c_next])
            /\ UNCHANGED c_pc
    /\ UNCHANGED <<c_fds, c_hooks, notcmd>>

\* After the last closure the child execs.
Exec ==
    /\ c_pc = "child"
    /\ c_next > Len(c_hooks)
    /\ c_pc' = "execd"
    /\ c_child' = AfterExec(c_child)
    /\ UNCHANGED <<c_fds, c_hooks, c_next, c_last, notcmd>>

NextCmd ==
    \/ \E fd \in CFds, target \in CFds \cup {FdLimit} : TakeFdN(fd, target)
    \/ Spawn
    \/ PreExec
    \/ Exec

SpecCmd == InitCmd /\ [][NextCmd]_vars

\* ---------------------------------------------------------------- temp-file creation actions

\* A process that creates temp files and names anonymous ones.
InitTemp ==
    /\ ReplIdle
    /\ WalkIdle
    /\ RootIdle
    /\ LinkIdle
    /\ XattrIdle
    /\ CmdIdle
    /\ TempIdle

\* new_tempfile(d) or generate_name_in(subdir, f) is called.
TempCall(fn) ==
    /\ n_pc = "idle"
    /\ n_calls < MaxCreates
    /\ n_calls' = n_calls + 1
    /\ n_fn' = fn
    /\ n_pc' = TempEntry(fn, n_unsupp)
    /\ n_attempts' = 0
    /\ n_tries' = 0
    /\ n_last' = None
    /\ n_first' = None
    /\ n_res' = None
    /\ UNCHANGED <<n_unsupp, n_reprobe, nottemp>>

\* rustix::fs::openat(d, ".", CLOEXEC | TMPFILE | RDWR, 0o600) and its match.
OpenatTmpfile(ans) ==
    /\ n_pc = "openat"
    /\ n_first' = ans
    /\ n_reprobe' = (n_reprobe \/ n_unsupp)
    /\ n_unsupp' = (n_unsupp \/ ans = "OPNOTSUPP")
    /\ CASE TmpfileArm(ans) = "file" ->
              /\ n_pc' = "done"
              /\ n_res' = "anonymous"
         [] TmpfileArm(ans) = "fallback" ->
              /\ n_pc' = "loop"
              /\ UNCHANGED n_res
         [] OTHER ->
              /\ n_pc' = "done"
              /\ n_res' = ans
    /\ UNCHANGED <<n_fn, n_attempts, n_tries, n_last, n_calls, nottemp>>

\* One turn of the loop of new_tempfile or generate_name_in: the counter, a
\* new name, and open_with(create_new) or linkat answering ans.
LoopTurn(ans) ==
    /\ n_pc = "loop"
    /\ n_tries < 2 ^ AttemptBits
    /\ n_attempts' = SaturatingAdd(n_attempts)
    /\ IF Exhausted(n_attempts')
       THEN /\ n_pc' = "done"
            /\ n_res' = "AlreadyExists"
            /\ UNCHANGED <<n_tries, n_last>>
       ELSE /\ n_tries' = n_tries + 1
            /\ n_last' = ans
            /\ CASE ans = "ok" ->
                      /\ n_pc' = "done"
                      /\ n_res' = "named"
                 [] ans = "EEXIST" ->
                      /\ UNCHANGED <<n_pc, n_res>>
                 [] OTHER ->
                      /\ n_pc' = "done"
                      /\ n_res' = ans
    /\ UNCHANGED <<n_fn, n_first, n_unsupp, n_reprobe, n_calls, nottemp>>

\* The caller takes the result.
TempReturn ==
    /\ n_pc = "done"
    /\ n_pc' = "idle"
    /\ n_fn' = None
    /\ n_attempts' = 0
    /\ n_tries' = 0
    /\ n_last' = None
    /\ n_first' = None
    /\ n_res' = None
    /\ UNCHANGED <<n_unsupp, n_reprobe, n_calls, nottemp>>

NextTemp ==
    \/ \E fn \in TempFns : TempCall(fn)
    \/ \E ans \in TmpfileAnswers : OpenatTmpfile(ans)
    \/ \E ans \in NameAnswers : LoopTurn(ans)
    \/ TempReturn

SpecTemp == InitTemp /\ [][NextTemp]_vars



\* ---------------------------------------------------------------- claims: atomic replace

Running == {p \in Procs : pc[p] # "idle"}
Returned(p) == pc[p] = "done"
Failed(p) == Returned(p) /\ res[p] # "ok"
DestUnchanged ==
    /\ dir[DestName] = pre_dir[DestName]
    /\ dir[TargetName] = pre_dir[TargetName]
    /\ Read(DestName) = pre_read

\* C1: at every point of a call, and after it returned with success or error,
\* reading the destination yields the complete content it had before the call
\* (or its absence) or the complete content of the writer; never a truncated
\* or partially written file.
C1_NoPartialDestination ==
    Read(DestName) \in ({pre_read} \cup {contents[p] : p \in Running})

\* The writer is at work on a temp file that holds a proper, non-empty part of
\* the content and is linked under a scratch name, while the destination exists.
C1_Witness ==
    \E p \in Procs :
        /\ pc[p] = "w_write"
        /\ inode[TmpIno(p)].data # <<>>
        /\ Len(inode[TmpIno(p)].data) < Len(contents[p])
        /\ tempname[p] # None
        /\ dir[DestName].kind = "file"

\* C2: when the writer closure returns an error the call returns that error,
\* no rename was performed and the destination is as before, also when the
\* writer had already written bytes to the temp file.
C2_WriterErrorLeavesDest ==
    \A p \in Procs :
        (Returned(p) /\ res[p] = "E_writer") =>
            /\ renames = <<>>
            /\ DestUnchanged
            /\ \A n \in Names : dir[n] = pre_dir[n]

\* The closure failed after bytes of it had reached the temp file.
C2_Witness ==
    \E p \in Procs :
        /\ res[p] = "E_writer"
        /\ inode[TmpIno(p)].data # <<>>
        /\ pre_dir[DestName].kind = "file"

\* C3: after a successful atomic_write_with_perms(name, C, P), whatever the
\* destination was before, reading name yields exactly C and the permission
\* bits of name are exactly P.
C3_WriteWithPerms ==
    \A p \in Procs :
        (op[p] = "write_with_perms" /\ Returned(p) /\ res[p] = "ok") =>
            /\ dir[DestName].kind = "file"
            /\ Read(DestName) = contents[p]
            /\ ModeOf(DestName) = perms[p]

\* A successful atomic_write_with_perms over an existing file of another mode.
C3_Witness ==
    \E p \in Procs :
        /\ op[p] = "write_with_perms" /\ Returned(p) /\ res[p] = "ok"
        /\ pre_dir[DestName].kind = "file"
        /\ inode["ino_old"].mode # perms[p]
        /\ contents[p] # <<>>

\* C4 (as claimed): a successful atomic_write / atomic_replace_with over an
\* existing regular file gives the new file the permission bits of the file it
\* replaced, for a bare file name and for a path with a parent directory alike.
C4_PreservesMode ==
    \A p \in Procs :
        (op[p] \in {"write", "replace_with"} /\ Returned(p) /\ res[p] = "ok"
            /\ pre_dir[DestName].kind = "file") =>
            ModeOf(DestName) = inode["ino_old"].mode

\* C5 (as claimed): an error return, whichever step failed, implies that the
\* destination's content and existence are unchanged.
C5_ErrorLeavesDest ==
    \A p \in Procs : Failed(p) => DestUnchanged

\* C5 (amended): an error from any step up to and including the rename leaves
\* the destination unchanged; an error of the parent directory's fsync is
\* returned after the rename, with the destination holding the new content.
C5_ErrorBeforeRenameLeavesDest ==
    \A p \in Procs :
        Failed(p) =>
            IF res[p] = "E_dir_sync"
            THEN /\ dir[DestName] = FileEntry(TmpIno(p))
                 /\ Read(DestName) = contents[p]
            ELSE /\ DestUnchanged
                 /\ \A n \in Names : dir[n] = pre_dir[n]

\* The rename failed for a fully written temp file that had a scratch name.
C5_Witness ==
    \E p \in Procs :
        /\ res[p] = "E_rename"
        /\ inode[TmpIno(p)].data = contents[p]
        /\ contents[p] # <<>>
        /\ pre_dir[DestName].kind = "file"

\* C6: two concurrent calls on one destination: the destination always holds
\* the old content or the complete content of the call that renamed last,
\* never a mixture; without IO failures both calls return success.
C6_LastRenameWins ==
    /\ (renames = <<>>) => (Read(DestName) = pre_read)
    /\ (renames # <<>>) =>
          /\ dir[DestName] = FileEntry(TmpIno(renames[Len(renames)]))
          /\ Read(DestName) = contents[renames[Len(renames)]]
    /\ ((\A p \in Procs : Returned(p)) /\ faults = 0) =>
          /\ \A p \in Procs : res[p] = "ok"
          /\ Len(renames) = Cardinality(Procs)

\* Both calls succeeded; call 2 renamed first, although call 1 started
\* writing first, and the destination holds call 1's content.
C6_Witness ==
    /\ \A p \in Procs : Returned(p) /\ res[p] = "ok"
    /\ renames = <<2, 1>>
    /\ Read(DestName) = contents[1]
    /\ pre_dir[DestName].kind = "file"

\* C7 (as claimed): a successful atomic_write / atomic_replace_with on a
\* destination that is a symbolic link replaces the link by a regular file,
\* leaves the link's target alone and gives the new file the default
\* temp-file permissions.
C7_SymlinkReplaced ==
    \A p \in Procs :
        (op[p] \in {"write", "replace_with"} /\ Returned(p) /\ res[p] = "ok"
            /\ pre_dir[DestName].kind = "symlink") =>
            /\ dir[DestName] = FileEntry(TmpIno(p))
            /\ dir[TargetName] = pre_dir[TargetName]
            /\ inode["ino_target"] = [data |-> TargetData, mode |-> TargetMode]
            /\ ModeOf(DestName) = default_mode

\* ---------------------------------------------------------------- claims: walk

Calls == 1..Len(w_calls)
NodeAt(i) == w_calls[i].node
ParentAt(i) == Tree[NodeAt(i)].parent
IsFileBreak(i) == w_calls[i].flow = "Break" /\ ~IsDir(NodeAt(i))
IsDirBreak(i) == w_calls[i].flow = "Break" /\ IsDir(NodeAt(i))
IndexIn(seq, x) == CHOOSE k \in 1..Len(seq) : seq[k] = x
IsLastListed(n) ==
    LET l == w_listing[Tree[n].parent] IN l # <<>> /\ l[Len(l)] = n
\* Directory d and the directories above it, the walk root excluded.
ChainOf(d) == {y \in Dirs \ {Root} : y = d \/ IsBeneath(d, y)}

\* C8 (as claimed): after the callback returned Break for a non-directory
\* entry, at any depth, the callback is never invoked again and the walk has
\* ended with success.
C8_FileBreakEndsWalk ==
    \A i \in Calls :
        IsFileBreak(i) =>
            /\ i = Len(w_calls)
            /\ (w_pc = "done" /\ ~w_iofail) => (w_res = "ok")

\* C8 (amended): Break for a non-directory entry ends the walk of the
\* directory that contains the entry: the callback is not invoked again for
\* anything beneath that directory; a Break in the walk root ends the whole
\* walk with success; a Break deeper down lets the walk go on with the
\* remaining entries of the ancestor directories, so the walk is over only
\* when none of them has an entry left.
C8_FileBreakEndsDirectory ==
    \A i \in Calls :
        IsFileBreak(i) =>
            /\ \A j \in Calls : (j > i) => ~IsBeneath(NodeAt(j), ParentAt(i))
            /\ (ParentAt(i) = Root) =>
                  (i = Len(w_calls) /\ w_pc = "done" /\ w_res = "ok")
            /\ (ParentAt(i) # Root /\ i = Len(w_calls) /\ w_pc = "done" /\ ~w_iofail) =>
                  /\ w_res = "ok"
                  /\ \A y \in ChainOf(ParentAt(i)) : IsLastListed(y)

\* Break for the file a/c/g, two levels below the root, was followed by a
\* callback for an entry of an ancestor directory.
C8_Witness ==
    \E i, j \in Calls :
        /\ i < j
        /\ IsFileBreak(i)
        /\ NodeAt(i) = "a/c/g"
        /\ ~IsLastListed("a/c/g")
        /\ ParentAt(j) \in {"a", Root}

\* C9: after Break for a non-directory entry the callback is invoked for no
\* further entry of the directory that contains it, and the Break is not
\* reported as an error.
C9_FileBreakSkipsSiblings ==
    \A i \in Calls :
        IsFileBreak(i) =>
            /\ \A j \in Calls : (j > i) => (ParentAt(j) # ParentAt(i))
            /\ (i = Len(w_calls) /\ ~w_iofail) => (w_res \in {None, "ok"})

\* Break for a file that had siblings left; the walk ended with Ok.
C9_Witness ==
    \E i \in Calls :
        /\ IsFileBreak(i)
        /\ ~IsLastListed(NodeAt(i))
        /\ w_pc = "done"
        /\ w_res = "ok"

\* C10: after Break for a directory entry that directory is not opened and
\* the callback is invoked for nothing beneath it; the loop goes on with the
\* next sibling of the directory.
C10_DirBreakSkipsSubtree ==
    \A i \in Calls :
        IsDirBreak(i) =>
            LET l == w_listing[ParentAt(i)]
                k == IndexIn(l, NodeAt(i))
            IN  /\ NodeAt(i) \notin w_opened
                /\ w_listing[NodeAt(i)] = <<>>
                /\ \A j \in Calls : ~IsBeneath(NodeAt(j), NodeAt(i))
                /\ (k < Len(l) /\ i < Len(w_calls)) => (NodeAt(i + 1) = l[k + 1])
                /\ (k < Len(l) /\ i = Len(w_calls) /\ ~w_iofail) => (w_pc = "loop")
                /\ (i = Len(w_calls) /\ ~w_iofail) => (w_res \in {None, "ok"})

\* Break for the directory a, which has entries, was followed by the callback
\* for its next sibling, and the walk ended with Ok.
C10_Witness ==
    \E i \in Calls :
        /\ IsDirBreak(i)
        /\ NodeAt(i) = "a"
        /\ i < Len(w_calls)
        /\ ParentAt(i + 1) = Root
        /\ w_pc = "done"
        /\ w_res = "ok"

DefaultCfg == w_cfg = [noxdev |-> FALSE, sorted |-> FALSE, path_base |-> <<>>]
AllContinue == \A i \in Calls : w_calls[i].flow = "Continue"
CalledNodes == {NodeAt(i) : i \in Calls}
WalkOk == w_pc = "done" /\ w_res = "ok"

C11_EachEntryOnce ==
    DefaultCfg =>
        /\ \A i, j \in Calls : NodeAt(i) = NodeAt(j) => i = j
        /\ \A n \in w_opened : Tree[n].kind = "dir"
        /\ \A n \in Nodes : Tree[n].kind = "symlink" =>
              \A i \in Calls : ~IsBeneath(NodeAt(i), n)
        /\ Len(w_calls) <= Cardinality(Nodes)
        /\ (WalkOk /\ AllContinue) =>
              /\ CalledNodes = Nodes
              /\ Len(w_calls) = Cardinality(Nodes)

\* C11: in a walk with the default configuration whose callback always
\* returns Continue, the callback is invoked exactly once for every entry of
\* the tree (files, directories and symbolic links alike); a symbolic link is
\* reported but never descended into, even when it points to an ancestor
\* directory; no directory is visited twice; and the walk terminates.
C11_WalkVisitsEachEntryOnce == [](C11_EachEntryOnce) /\ <>(w_pc = "done")

C11_Witness ==
    /\ DefaultCfg
    /\ WalkOk
    /\ AllContinue
    /\ \E i \in Calls : NodeAt(i) = "a/l" /\ i < Len(w_calls)
    /\ Len(w_calls) = 9

\* The entry listed after n in the directory containing n.
NextListed(n) ==
    LET l == w_listing[Tree[n].parent] IN l[IndexIn(l, n) + 1]

\* C12: in a walk with noxdev set, a child directory on another file system
\* is never opened and the callback is invoked for nothing inside it; skipping
\* it is not an error, and the walk goes on with the entries listed after it.
C12_NoxdevSkipsMount ==
    w_cfg.noxdev =>
        /\ \A n \in Nodes : Tree[n].xdev =>
              /\ n \notin w_opened
              /\ \A i \in Calls : ~IsBeneath(NodeAt(i), n)
        /\ \A i \in Calls :
              (Tree[NodeAt(i)].xdev /\ w_calls[i].flow = "Continue" /\ ~w_iofail) =>
                  /\ w_res \in {None, "ok"} \/ i < Len(w_calls)
                  /\ (i < Len(w_calls)) =>
                        /\ ~IsLastListed(NodeAt(i))
                        /\ NodeAt(i + 1) = NextListed(NodeAt(i))
                  /\ (w_pc = "done" /\ ~IsLastListed(NodeAt(i))) => i < Len(w_calls)

C12_Witness ==
    /\ w_cfg.noxdev
    /\ WalkOk
    /\ AllContinue
    /\ \E i \in Calls :
          /\ NodeAt(i) = "m"
          /\ i < Len(w_calls)
          /\ ParentAt(i + 1) = Root
    /\ Len(w_calls) = 8

C13_Failed == w_res \notin {None, "ok"}

C13_ErrorState ==
    /\ \A i \in Calls : w_calls[i].flow = "Err" =>
          /\ i = Len(w_calls)
          /\ w_res = "E_callback"
    /\ w_iofail => w_res = "E_io"
    /\ C13_Failed => w_pc = "done" /\ w_stack = <<>>

\* C13: when the callback returns an error, or listing a directory, reading
\* an entry or its file type, or opening a child directory fails, the walk has
\* returned that error out of every level, and the callback is not invoked
\* again at any level.
C13_ErrorEndsWalk ==
    /\ [](C13_ErrorState)
    /\ [][C13_Failed => (w_calls' = w_calls /\ w_res' = w_res)]_vars

C13_Witness ==
    /\ w_res = "E_callback"
    /\ w_calls # <<>>
    /\ w_calls[Len(w_calls)].node = "a/c/g"
    /\ w_calls[Len(w_calls)].flow = "Err"
    /\ w_listing["a/c"] = <<"a/c/g", "a/c/h">>
    /\ w_listing["a"][1] = "a/c"
    /\ w_listing[Root][1] = "a"

\* ---------------------------------------------------------------------------
\* Claims about RootDir.

RootDone == r_pc = "done"
Succeeded == r_method \in RootMethods /\ r_out.kind \in {"File", "Bytes", "String"}

\* C14: whatever the symlinks of the root point to (absolute targets,
\* relative targets, targets with `..`), a RootDir open, read or
\* read_to_string that succeeds yields a file inside the root directory, and
\* the bytes read are that file's.
C14_ReadsStayInRoot ==
    /\ (r_pc \in {"opened", "done"} /\ r_method \in RootMethods /\ r_res.err = "ok") =>
          /\ r_res.loc \in DOMAIN Fs
          /\ Inside(r_res.loc)
    /\ (RootDone /\ Succeeded) =>
          /\ Inside(r_out.loc)
          /\ r_out.kind \in {"Bytes", "String"} =>
                /\ r_out.data = Fs[r_out.loc].data
                /\ r_out.data # HostData

C14_Witness ==
    /\ RootDone
    /\ r_method = "read"
    /\ r_path = Path(FALSE, <<"etc", "auth.json">>)
    /\ r_link = Target(FALSE, <<"..", "..", "etc", "passwd">>)
    /\ r_out.kind = "Bytes"
    /\ r_out.loc = <<"td", "etc", "passwd">>

\* The first symlink a path of Paths meets, and the components left after it.
HasFirstLink(path) ==
    \/ path.comps[1] = "lnk"
    \/ path.comps = <<"etc", "auth.json">>
FirstLink(path) ==
    IF path.comps[1] = "lnk"
    THEN [at |-> <<"td", "lnk">>, t |-> r_dlink, rest |-> Tail(path.comps)]
    ELSE [at |-> <<"td", "etc", "auth.json">>, t |-> r_link, rest |-> <<>>]

\* C15: a RootDir lookup of a path (absolute or relative) that is, or passes
\* through, a symlink with an absolute target goes on from the root directory
\* with that target, as though the target had been given relative to the
\* root, and returns the file found there; the same lookup through the plain
\* Dir fails.
C15_AbsoluteLinkInRoot ==
    (RootDone /\ r_method \in RootMethods /\ HasFirstLink(r_path)
       /\ FirstLink(r_path).t.abs) =>
        LET fl == FirstLink(r_path)
            exp == Lookup(Fs, "in_root", Path(FALSE, fl.t.comps \o fl.rest))
        IN  /\ r_res.err = exp.err
            /\ r_res.loc = exp.loc
            /\ r_out = MethodOut(Fs, r_method, exp)
            /\ fl.t.comps \o fl.rest = <<"usr", "lib", "auth.json">> =>
                  /\ r_res.err = "ok"
                  /\ r_res.loc = <<"td", "usr", "lib", "auth.json">>
                  /\ r_method \in {"read", "read_to_string"} => r_out.data = AuthData
            /\ r_plain # NoOut => r_plain.kind = "Err"

C15_Witness ==
    /\ RootDone
    /\ r_method = "read_to_string"
    /\ r_path = Path(TRUE, <<"etc", "auth.json">>)
    /\ r_link = Target(TRUE, <<"usr", "lib", "auth.json">>)
    /\ r_out.kind = "String"
    /\ r_out.data = AuthData
    /\ r_plain.kind = "Err"

\* Whether following comps from a directory depth levels below the root
\* would, without confinement, lead above the root.
RECURSIVE LeavesRoot(_, _)
LeavesRoot(depth, comps) ==
    IF comps = <<>> THEN FALSE
    ELSE IF Head(comps) = ".." THEN depth = 0 \/ LeavesRoot(depth - 1, Tail(comps))
    ELSE LeavesRoot(depth + 1, Tail(comps))

\* The symlink at location l has a target that leaves the root through `..`.
UpLink(l) ==
    LeavesRoot(IF Fs[l].target.abs THEN 0 ELSE Len(l) - 1 - Len(RootLoc),
               Fs[l].target.comps)

\* comps followed from the directory `stack` below the root, `..` in the root
\* staying in the root.
RECURSIVE Clamped(_, _)
Clamped(stack, comps) ==
    IF comps = <<>> THEN stack
    ELSE IF Head(comps) = ".." THEN Clamped(Parent(stack), Tail(comps))
    ELSE Clamped(Append(stack, Head(comps)), Tail(comps))

\* C16 (as claimed): RootDir::open through a symlink whose target would leave
\* the root through `..` returns an error.
C16_UplinkFails ==
    (RootDone /\ r_method = "open" /\ \E l \in r_res.links : UpLink(l)) =>
        r_out.kind = "Err"

\* C16 (amended): RootDir::open through a symlink whose target would leave
\* the root through `..` is not refused: `..` in the root directory stays in
\* the root directory, so the lookup yields whatever the path so clamped names
\* inside the root (the root's own etc/passwd for ../../etc/passwd one level
\* below the root) and fails with NotFound when nothing is there.
C16_UplinkStaysInRoot ==
    (RootDone /\ r_method = "open" /\ HasFirstLink(r_path)
       /\ UpLink(FirstLink(r_path).at)) =>
        LET fl == FirstLink(r_path)
            dirof == IF fl.t.abs THEN <<>>
                     ELSE SubSeq(fl.at, Len(RootLoc) + 1, Len(fl.at) - 1)
            exp == Lookup(Fs, "in_root", Path(FALSE, Clamped(dirof, fl.t.comps) \o fl.rest))
        IN  /\ r_res.err = exp.err
            /\ r_res.loc = exp.loc
            /\ r_res.err # "EscapeAttempt"
            /\ r_res.err = "ok" => Inside(r_res.loc) /\ r_out.kind = "File"
            /\ Clamped(dirof, fl.t.comps) \o fl.rest = <<"etc", "passwd">> =>
                  /\ r_passwd => (r_res.err = "ok" /\ r_res.loc = <<"td", "etc", "passwd">>)
                  /\ ~r_passwd => r_res.err = "ENOENT"

C16_Witness ==
    /\ RootDone
    /\ r_method = "open"
    /\ r_path = Path(FALSE, <<"etc", "auth.json">>)
    /\ r_link = Target(FALSE, <<"..", "..", "etc", "passwd">>)
    /\ r_passwd
    /\ r_out.kind = "File"
    /\ r_out.loc = <<"td", "etc", "passwd">>

\* ---------------------------------------------------------------------------
\* Claims about LinkableTempfile.

TWhere == Where(t_nested)
DestExisted == t_pre[TWhere][TDest] = OldIno
Finalized == t_pc \in {"drop", "done"} /\ t_method \in ReplaceMethods \cup {"emplace"}
\* Every name but the destination is as it was before the temp file existed.
OnlyDestChanged ==
    \A d \in TDirs, n \in TNames :
        (d # TWhere \/ n # TDest) => t_ents[d][n] = t_pre[d][n]

\* C17: emplace() onto a destination name that exists fails with
\* AlreadyExists and leaves the name linked to the existing file, its content
\* and mode as they were; replace() in the same situation succeeds and the
\* name is then linked to the temp file, with the content written to it.
C17_EmplaceKeepsReplaceOverwrites ==
    /\ (Finalized /\ t_method = "emplace" /\ DestExisted) =>
          /\ t_res = IF t_fault THEN "E_io" ELSE "AlreadyExists"
          /\ t_ents[TWhere][TDest] = OldIno
          /\ t_ino[OldIno].data = OldData
          /\ t_ino[OldIno].mode \in OldModes
    /\ (t_pc = "done" /\ t_method = "replace" /\ DestExisted /\ ~t_fault) =>
          /\ t_res = "ok"
          /\ t_ents[TWhere][TDest] = TmpFileIno
          /\ t_ino[TmpFileIno].data \in {<<>>, NewData}

C17_Witness ==
    /\ t_pc = "done"
    /\ t_method = "emplace"
    /\ DestExisted
    /\ t_res = "AlreadyExists"
    /\ t_ino[TmpFileIno].data = NewData

C17_WitnessReplace ==
    /\ t_pc = "done"
    /\ t_method = "replace"
    /\ DestExisted
    /\ t_res = "ok"
    /\ t_ino[TmpFileIno].data = NewData

\* C18: once emplace() or a replace variant has returned success and the
\* object is dropped, the destination name is linked to the temp file and no
\* scratch name is left, whether the file was created anonymously or under a
\* name; Drop has not unlinked the destination.
C18_FinalizedUnderDestOnly ==
    (t_pc = "done" /\ t_res = "ok") =>
        /\ t_ents[TWhere][TDest] = TmpFileIno
        /\ OnlyDestChanged
        /\ \A d \in TDirs, n \in ScratchNames : t_ents[d][n] # TmpFileIno

C18_Witness ==
    /\ t_pc = "done"
    /\ t_res = "ok"
    /\ t_method = "emplace"
    /\ t_otmp = "OPNOTSUPP"
    /\ t_nested

\* C19: dropping a LinkableTempfile on which no finalization method was
\* called leaves every directory with the entries it had before new_in: the
\* scratch name of the fallback is unlinked from the directory it was created
\* in, and the anonymous file never has an entry.
C19_DropLeavesNoEntry ==
    /\ (t_pc = "done" /\ t_method = "drop") => t_ents = t_pre
    /\ (t_pc \in {"held", "drop"} /\ t_method \in {None, "drop"} /\ t_otmp = "ok") =>
          t_ents = t_pre
    /\ (t_pc = "held" /\ t_otmp = "OPNOTSUPP") =>
          /\ t_tempname \in ScratchNames
          /\ t_ents[TWhere][t_tempname] = TmpFileIno

C19_Witness ==
    /\ t_pc = "done"
    /\ t_method = "drop"
    /\ t_otmp = "OPNOTSUPP"
    /\ t_nested
    /\ t_ents = t_pre

\* ---------------------------------------------------------------------------
\* Claims about the optional operations.

IsOptional == r_method \in DirMethods \cup {"open_optional"}

\* C20: open_optional, open_dir_optional, metadata_optional,
\* symlink_metadata_optional and RootDir::open_optional return None, and
\* remove_file_optional returns false, exactly when the operation they wrap
\* fails with NotFound (a followed symlink that is broken included); a success
\* is returned as Some or true, and any other error as that same error.
C20_NotFoundIsNone ==
    (RootDone /\ IsOptional) =>
        /\ r_out.kind \in {"None", "False"} <=> r_res.err = "ENOENT"
        /\ r_out.kind = "False" => r_method = "remove_file_optional"
        /\ r_out.kind = "None" => r_method # "remove_file_optional"
        /\ r_res.err = "ok" =>
              /\ r_out.kind = IF r_method = "remove_file_optional" THEN "True"
                              ELSE IF r_method \in {"open_optional", "Dir::open_optional"} THEN "File"
                              ELSE IF r_method = "open_dir_optional" THEN "Dir"
                              ELSE "Metadata"
              /\ r_out.loc = r_res.loc
        /\ r_res.err \notin {"ok", "ENOENT"} =>
              /\ r_out.kind = "Err"
              /\ r_out.err = r_res.err

C20_Witness ==
    /\ RootDone
    /\ r_method = "Dir::open_optional"
    /\ r_path = Path(FALSE, <<"etc", "auth.json">>)
    /\ r_link = Target(FALSE, <<"missing">>)
    /\ r_res.err = "ENOENT"
    /\ r_out.kind = "None"

C20_WitnessOtherError ==
    /\ RootDone
    /\ r_method = "metadata_optional"
    /\ r_res.err = "ELOOP"
    /\ r_out.kind = "Err"

\* ---------------------------------------------------------------------------
\* Claims about the modes and the cleanup of LinkableTempfile.

\* C26: after a successful replace() or replace_contents() the file under the
\* destination name has the mode of the destination that existed before, or
\* 0o600 when there was none; after replace_with_perms(P) or
\* replace_contents_using_perms(_, P) it has mode P.
C26_FinalMode ==
    (t_pc = "done" /\ t_res = "ok" /\ t_method \in ReplaceMethods) =>
        LET mode == t_ino[t_ents[TWhere][TDest]].mode IN
        /\ t_ents[TWhere][TDest] = TmpFileIno
        /\ t_method \in {"replace", "replace_contents"} =>
              mode = IF DestExisted THEN t_ino[OldIno].mode ELSE Mode600
        /\ t_method \in {"replace_with_perms", "replace_contents_using_perms"} =>
              /\ mode = t_perms
              /\ mode \in NewModes

C26_Witness ==
    /\ t_pc = "done"
    /\ t_res = "ok"
    /\ t_method = "replace_contents"
    /\ DestExisted
    /\ t_ino[TmpFileIno].mode = 448
    /\ t_ino[TmpFileIno].data = NewData

\* The final rename of replace_with_perms failed and the call has returned.
RenameFailed ==
    /\ t_pc = "done"
    /\ t_method \in ReplaceMethods
    /\ t_fault
    /\ t_local # None

\* C28: when the final rename of replace_with_perms fails, the scratch name
\* of the file is gone from the directory it was in once the call has
\* returned, every entry is as it was before the temp file existed, and the
\* error is the rename's; for a bare file name and for a target with a
\* parent directory alike.
C28_RenameFailureCleansUp ==
    RenameFailed =>
        /\ t_res = "E_io"
        /\ t_ents[TWhere][t_local] # TmpFileIno
        /\ t_ents = t_pre

\* C28 holds for a bare file name.
C28_BareNameCleansUp ==
    (RenameFailed /\ ~t_nested) =>
        /\ t_res = "E_io"
        /\ t_ents[TWhere][t_local] # TmpFileIno
        /\ t_ents = t_pre

\* ---------------------------------------------------------------------------
\* Claims about the order of the steps of atomic_replace_with.

\* What C29 asks of one step of call p.
StepInOrder(p) ==
    /\ (pc'[p] = "into_inner" /\ pc[p] # "into_inner") =>
          pc[p] \in {"w_write", "w_chmod"}
    /\ (pc'[p] = "sync_all" /\ pc[p] # "sync_all") =>
          /\ pc[p] = "into_inner"
          /\ bufw[p] = <<>>
          /\ inode[TmpIno(p)].data = contents[p]
    /\ (pc'[p] \in {"generate_name", "rename"} /\ pc[p] \notin {"generate_name", "rename"}) =>
          pc[p] = "sync_all"
    /\ (renames' # renames /\ pc'[p] # pc[p]) =>
          /\ pc[p] = "rename"
          /\ pc'[p] = "dir_sync"
          /\ inode[TmpIno(p)].data = contents[p]
    /\ (pc'[p] = "dir_sync" /\ pc[p] # "dir_sync") =>
          /\ pc[p] = "rename"
          /\ renames' = Append(renames, p)
    /\ (res'[p] = "ok" /\ res[p] # "ok") =>
          /\ pc[p] = "dir_sync"
          /\ p \in {renames[i] : i \in 1..Len(renames)}

\* C29: in atomic_replace_with the writer runs, then the buffered data is
\* flushed, then the temp file is fsynced, then it is renamed over the
\* destination name, then the parent directory is fsynced: the rename happens
\* only after the flush and the fsync of the temp file, the directory fsync
\* only after the rename, and success is returned only after all of them.
C29_StepOrder == [][\A p \in Procs : StepInOrder(p)]_vars

C29_Witness ==
    /\ pc[1] = "done"
    /\ res[1] = "ok"
    /\ renames = <<1>>
    /\ Len(contents[1]) = ContentLen
    /\ Read(DestName) = contents[1]

\* ---------------------------------------------------------------------------
\* Claims about the retry loops.

Retrying == RootMethods \cup {"open_dir_noxdev"}

\* C30: open_beneath_rdonly and openat2_with_retry issue the open again each
\* time the kernel answers EAGAIN or EINTR, as many times as that happens;
\* neither of the two is ever returned, and what is returned is exactly the
\* kernel's first other answer, a success or an error.
C30_TransientRetried ==
    /\ r_tries <= MaxAgain
    /\ (r_pc = "openat2") => (r_method \in Retrying /\ r_res = NoRes)
    /\ (r_pc \in {"opened", "done"} /\ r_method \in Retrying) =>
          /\ r_res.err \notin Transient
          /\ r_res \in KernelAnswers
          /\ r_out.kind = "Err" => r_out.err \notin Transient

C30_Witness ==
    /\ r_pc = "done"
    /\ r_method = "open_dir_noxdev"
    /\ r_tries = MaxAgain
    /\ r_res.err = "ok"
    /\ r_out.kind = "Dir"

C30_WitnessRoot ==
    /\ r_pc = "done"
    /\ r_method = "open"
    /\ r_tries = MaxAgain
    /\ r_res.err = "ENOENT"

\* ---------------------------------------------------------------------------
\* C21: remove_all_optional(p) returns false and changes nothing when p does
\* not exist; for a directory it removes the whole subtree and returns true;
\* for a regular file or a symlink, broken or not, it removes only that entry,
\* never the link's target, and returns true.  After true, p no longer exists.
RemoveDone == r_pc = "done" /\ r_method = "remove_all_optional"
Removed == DOMAIN PreFs \ DOMAIN Fs

C21_RemoveAllOptional ==
    RemoveDone =>
        LET at == LookupNoFollow(PreFs, "beneath", r_path) IN
        /\ at.err = "ENOENT" => r_out.kind = "False" /\ Removed = {}
        /\ (at.err = "ok" /\ PreFs[at.loc].kind = "dir") =>
               /\ r_out.kind = "True"
               /\ Removed = {l \in DOMAIN PreFs :
                               /\ Len(l) >= Len(at.loc)
                               /\ \A i \in 1..Len(at.loc) : l[i] = at.loc[i]}
        /\ (at.err = "ok" /\ PreFs[at.loc].kind # "dir") =>
               r_out.kind = "True" /\ Removed = {at.loc}
        /\ r_out.kind = "True" => LookupNoFollow(Fs, "beneath", r_path).err = "ENOENT"
        /\ r_out.kind = "False" => Removed = {}

\* A broken symlink was removed.
C21_Witness ==
    /\ RemoveDone
    /\ r_out.kind = "True"
    /\ PreFs[r_out.loc].kind = "link"
    /\ Lookup(PreFs, "beneath", r_path).err = "ENOENT"

\* A directory with an entry in it was removed.
C21_WitnessDir ==
    /\ RemoveDone
    /\ r_out.kind = "True"
    /\ PreFs[r_out.loc].kind = "dir"
    /\ Cardinality(Removed) > 1

\* A symlink to an existing target was removed and the target is still there.
C21_WitnessLiveLink ==
    /\ RemoveDone
    /\ r_out.kind = "True"
    /\ PreFs[r_out.loc].kind = "link"
    /\ LET t == Lookup(PreFs, "beneath", r_path) IN t.err = "ok" /\ t.loc \in DOMAIN Fs

\* ---------------------------------------------------------------------------
\* C22: ensure_dir_with(p) returns true exactly when it created the directory
\* and false when a directory already existed at p, so a second call directly
\* after a successful one returns false and changes nothing; it returns an
\* error and creates nothing when the parent of p does not exist.
EnsureDone == r_pc = "done" /\ r_method = "ensure_dir_with"
EnsureFirst == EnsureDone /\ r_prev = NoOut
EnsureAt(fs) == LookupNoFollow(fs, "beneath", r_path)
EnsureParent ==
    Lookup(PreFs, "beneath", Path(r_path.abs, SubSeq(r_path.comps, 1, Len(r_path.comps) - 1)))

EnsureContract ==
    /\ EnsureFirst =>
          /\ r_out.kind = "True" <=> (EnsureAt(Fs).err = "ok" /\ EnsureAt(Fs).loc \in r_made)
          /\ (EnsureAt(PreFs).err = "ok" /\ PreFs[EnsureAt(PreFs).loc].kind = "dir") =>
                 r_out.kind = "False" /\ r_made = {}
          /\ EnsureParent.err = "ENOENT" => r_out.kind = "Err" /\ r_made = {}
    /\ (EnsureDone /\ r_prev.kind = "True") =>
          r_out.kind = "False" /\ r_made = {r_prev.loc}

C22_EnsureDirReturn == EnsureDone => EnsureContract

\* With a builder that is not recursive the contract of C22 holds.
C22_DefaultBuilder == (EnsureDone /\ ~r_recursive) => EnsureContract

\* ---------------------------------------------------------------------------
\* C23: ensure_dir_with(p) returns an error and leaves the existing entry
\* unchanged when p exists as something that is not a directory: a regular
\* file, a broken symlink, or a symlink whose target is a directory.
EnsureNonDir ==
    /\ EnsureFirst
    /\ EnsureAt(PreFs).err = "ok"
    /\ PreFs[EnsureAt(PreFs).loc].kind # "dir"

NonDirRefused == r_out.kind = "Err" /\ r_made = {} /\ r_gone = {}

C23_NonDirectoryIsError == EnsureNonDir => NonDirRefused

\* With a builder that is not recursive every non-directory is refused.
C23_DefaultBuilder == (EnsureNonDir /\ ~r_recursive) => NonDirRefused

\* ---------------------------------------------------------------------------
\* C24: getxattr, setxattr and listxattrs called with a path that is absolute
\* or contains a .. component return PermissionDenied without issuing any
\* attribute syscall and without changing any attribute; a relative path
\* without .. passes validation and reaches the syscall.
Escapes(path) == path.abs \/ ".." \in {path.comps[i] : i \in 1..Len(path.comps)}

C24_Step ==
    /\ Escapes(x_path') =>
          /\ x_attrs' = x_attrs
          /\ x_sys' = 0
          /\ x_pc' = "done"
          /\ x_out' = ErrOut("PermissionDenied")
    /\ (~Escapes(x_path') /\ x_pc' = "done") =>
          /\ x_sys' >= 1
          /\ x_out'.err # "PermissionDenied"

C24_XattrPathValidated == [][C24_Step]_vars

\* setxattr with a path that leads out was refused on a file that has attributes.
C24_Witness ==
    /\ x_pc = "done"
    /\ x_method = "setxattr"
    /\ Escapes(x_path)
    /\ x_out.kind = "Err"
    /\ \E f \in XFiles, k \in XKeys : x_attrs[f][k] # NoValue

\* ---------------------------------------------------------------------------
\* C25: setxattr(path, key, value) followed by getxattr(path, key) returns
\* Some(value) with exactly the bytes written, also when the value is larger
\* than the first buffer of 256 bytes; getxattr of a key never set returns None.
GetDone ==
    /\ x_pc = "done"
    /\ x_method = "getxattr"
    /\ ~Escapes(x_path)
    /\ XFile(x_path) \in XFiles

C25_GetReturnsWritten ==
    GetDone =>
        LET w == x_written[XFile(x_path)][x_key] IN
        IF w = NoValue
        THEN x_out.kind = "None"
        ELSE x_out.kind = "Some" /\ x_out.data = w

\* A value of more than twice the first buffer was read back.
C25_Witness ==
    /\ GetDone
    /\ x_out.kind = "Some"
    /\ Len(x_out.data) > 2 * GetxattrCap
    /\ x_sys = 3

\* A key never set on a file that has the other key.
C25_WitnessUnset ==
    /\ GetDone
    /\ x_out.kind = "None"
    /\ \E k \in XKeys : x_written[XFile(x_path)][k] # NoValue

\* ---------------------------------------------------------------------------
\* C27: after the closure that take_fd_n(fd, target) registered has run in the
\* child, descriptor target refers to the open file descriptor fd referred to
\* when the closure started and has close-on-exec cleared, whether or not the
\* two numbers are equal; it is therefore still open after exec.
HookRan == c_pc \in {"child", "execd"} /\ c_next > 1
LastHook == c_hooks[c_next - 1]

C27_TargetIsFd ==
    HookRan =>
        /\ c_last[LastHook.fd] # Closed
        /\ c_child[LastHook.target].file = c_last[LastHook.fd].file
        /\ ~c_child[LastHook.target].cloexec

\* The numbers were equal and close-on-exec was set.
C27_Witness ==
    /\ HookRan
    /\ LastHook.fd = LastHook.target
    /\ c_last[LastHook.fd].cloexec
    /\ c_pc = "execd"

\* The numbers differed and target was open on another file.
C27_WitnessDup ==
    /\ HookRan
    /\ LastHook.fd # LastHook.target
    /\ c_last[LastHook.target] # Closed
    /\ c_last[LastHook.target].file # c_last[LastHook.fd].file

\* ---------------------------------------------------------------------------
\* C35 (as claimed): in atomic_write_with_perms(name, C, P) the permissions P
\* are applied to the temp file before any byte of C is written to it.
InWriter(p) == op[p] = "write_with_perms" /\ pc[p] \in {"w_write", "w_flush", "into_inner"}
ByteReaches(p) == InWriter(p) /\ inode'[TmpIno(p)].data # inode[TmpIno(p)].data

C35_PermsBeforeWrite ==
    [][\A p \in Procs : ByteReaches(p) => inode[TmpIno(p)].mode = perms[p]]_vars

\* C35 (amended): the permissions P are applied to the temp file only after
\* every byte of C has reached it: once the closure has applied P the file
\* holds all of C, its buffer is empty and its mode is P.
PermsApplied(p) == op[p] = "write_with_perms" /\ pc[p] \in {"into_inner", "sync_all"}

C35_PermsAfterWrite ==
    \A p \in Procs :
        PermsApplied(p) =>
            /\ inode[TmpIno(p)].data = contents[p]
            /\ bufw[p] = <<>>
            /\ inode[TmpIno(p)].mode = perms[p]

\* The closure applied permissions other than 0600 to a file that holds content.
C35_Witness ==
    \E p \in Procs :
        /\ PermsApplied(p)
        /\ contents[p] # <<>>
        /\ perms[p] # Mode600

\* ---------------------------------------------------------------------------
\* C39: during atomic_write_with_perms no byte of the content is written to
\* the temp file while its mode grants access to group or others: when a byte
\* reaches the file its mode is 0600, also when the mode of an existing
\* destination was first given to the temp file, and the requested permissions
\* are applied only after the content has been flushed.
C39_Step(p) ==
    /\ ByteReaches(p) => inode[TmpIno(p)].mode = Mode600 /\ inode'[TmpIno(p)].mode = Mode600
    /\ (op[p] = "write_with_perms" /\ pc[p] = "w_chmod" /\ pc'[p] = "into_inner") =>
          bufw[p] = <<>> /\ inode[TmpIno(p)].data = contents[p]

C39_WrittenAt600 == [][\A p \in Procs : C39_Step(p)]_vars

\* Content is in the temp file, which had first been given the broader mode of
\* the destination.
C39_Witness ==
    \E p \in Procs :
        /\ InWriter(p)
        /\ inode[TmpIno(p)].data # <<>>
        /\ existing_perms[p] \in OldModes
        /\ existing_perms[p] # Mode600
        /\ inode[TmpIno(p)].mode = Mode600

\* ---------------------------------------------------------------------------
\* C33: with a sorter configured all entries of a directory are read before
\* the first callback for that directory, the callback is invoked on the
\* entries of every directory in nondecreasing order of the sorter, and the
\* sort does not span levels: the subtree of a directory is visited right
\* after the directory and before its next sibling.
C33_SortedPerDirectory ==
    w_cfg.sorted =>
        /\ \A i \in Calls :
              LET l == w_listing[ParentAt(i)] IN
              /\ {l[k] : k \in 1..Len(l)} = Children(ParentAt(i))
              /\ \A j, k \in 1..Len(l) : (j < k) => ~SorterLess(l[k], l[j])
        /\ \A i, j \in Calls :
              (i < j /\ ParentAt(i) = ParentAt(j)) => ~SorterLess(NodeAt(j), NodeAt(i))
        /\ \A i, j \in Calls :
              (i < j /\ IsBeneath(NodeAt(j), NodeAt(i))) =>
                  \A k \in (i + 1)..j : IsBeneath(NodeAt(k), NodeAt(i))

\* A sorted walk went through a/c, then a's later entries, then a's siblings.
C33_Witness ==
    /\ w_cfg.sorted
    /\ w_pc = "done"
    /\ w_res = "ok"
    /\ \E i, j, k \in Calls :
          /\ i < j /\ j < k
          /\ NodeAt(i) = "a/c/h"
          /\ NodeAt(j) = "a/f"
          /\ NodeAt(k) = "b"

\* ---------------------------------------------------------------------------
\* C34: at every callback invocation component.path is path_base joined with
\* the names of the directories from the walk root down to the entry and the
\* entry's file name, whatever was recursed into, skipped by Break or skipped
\* for crossing a mount before.
RECURSIVE NamesTo(_)
NamesTo(n) ==
    IF Tree[n].parent = Root THEN <<Tree[n].name>>
    ELSE Append(NamesTo(Tree[n].parent), Tree[n].name)

NoFileName(path) == path = <<>> \/ path[Len(path)] = ".."

C37_NoFileNameRefused ==
    /\ \A p \in Procs :
          (pc[p] # "idle" /\ NoFileName(destname)) =>
              /\ pc[p] \in {"subdir_of", "done"}
              /\ pc[p] = "done" => res[p] = "InvalidInput"
              /\ dir = pre_dir
              /\ inode[TmpIno(p)] = [data |-> <<>>, mode |-> NoMode]
              /\ tempname[p] = None
              /\ written[p] = 0
              /\ bufw[p] = <<>>
    /\ (t_pc # "idle" /\ t_noname) =>
          /\ t_pc \in {"new", "done"}
          /\ t_pc = "done" => t_res = "InvalidInput"
          /\ t_ents = t_pre
          /\ t_ino[TmpFileIno] = NoFile
          /\ t_subdir = None
          /\ t_tempname = None

\* atomic_replace_with of sub/.. with content to write returned.
C37_Witness ==
    /\ destname = <<"sub", "..">>
    /\ pc[1] = "done"
    /\ res[1] = "InvalidInput"
    /\ contents[1] # <<>>

\* new_in of a target without file name returned.
C37_WitnessNewIn ==
    /\ t_noname
    /\ t_nested
    /\ t_pc = "done"
    /\ t_res = "InvalidInput"

\* ---------------------------------------------------------------------------
\* C38: iterating the result of listxattrs yields every attribute name of the
\* returned NUL-separated buffer exactly once, in buffer order, and never an
\* empty name; after setting a set K of keys on a target that had none of them
\* the listing contains each key of K exactly once.
ListDone ==
    /\ x_pc = "done"
    /\ x_method = "listxattrs"
    /\ x_out.kind = "List"

RECURSIVE JoinNul(_)
JoinNul(names) ==
    IF names = <<>> THEN <<>> ELSE Head(names) \o <<0>> \o JoinNul(Tail(names))

KeysSet(f) == {k \in XKeys : x_written[f][k] # NoValue}

C38_ListYieldsEachName ==
    ListDone =>
        LET names == XattrListIter(x_out.data) IN
        /\ JoinNul(names) = x_out.data
        /\ \A i \in 1..Len(names) : names[i] # <<>>
        /\ \A k \in KeysSet(XFile(x_path)) :
              Cardinality({i \in 1..Len(names) : names[i] = k}) = 1
        /\ Len(names) = Cardinality(KeysSet(XFile(x_path)))

\* Two keys were set on the file and both are listed.
C38_Witness ==
    /\ ListDone
    /\ Cardinality(KeysSet(XFile(x_path))) = 2
    /\ Len(XattrListIter(x_out.data)) = 2

\* Nothing was set on the file: the listing is empty.
C38_WitnessEmpty ==
    /\ ListDone
    /\ x_out.data = <<>>
    /\ \E f \in XFiles : KeysSet(f) # {}

\* ---------------------------------------------------------------------------
\* C40 (as claimed): with several take_fd_n registrations on one Command,
\* after all closures have run in registration order every target refers to
\* the open file that was passed for it, for every combination of source and
\* target numbers, also when the number of one registration's source is the
\* target of an earlier registration.
AllHooksRan ==
    /\ c_pc \in {"child", "execd"}
    /\ c_next > Len(c_hooks)
    /\ Len(c_hooks) > 1
    /\ \A i, j \in 1..Len(c_hooks) : (i # j) => c_hooks[i].target # c_hooks[j].target

TargetsRight ==
    \A i \in 1..Len(c_hooks) :
        /\ c_child[c_hooks[i].target].file = c_fds[c_hooks[i].fd].file
        /\ ~c_child[c_hooks[i].target].cloexec

C40_EveryTargetGetsItsFile == AllHooksRan => TargetsRight

\* When no registration's source number is the target of an earlier
\* registration with another source, every target refers to its file.
NoSourceOverwritten ==
    \A i, j \in 1..Len(c_hooks) :
        (i < j /\ c_hooks[i].fd # c_hooks[i].target) => c_hooks[j].fd # c_hooks[i].target

C40_DisjointNumbers == (AllHooksRan /\ NoSourceOverwritten) => TargetsRight

\* ---------------------------------------------------------------------------
\* C31: temp-file creation first attempts the anonymous open; it falls back to
\* exclusive creation under a random name if and only if that attempt fails
\* with OPNOTSUPP, which is never returned to the caller; any other error of
\* the anonymous attempt is returned without the fallback.
InNewTempfile == n_fn = "new_tempfile" /\ n_pc \in {"loop", "done"}
FellBack == n_tries > 0 \/ n_pc = "loop" \/ n_res \in {"named", "AlreadyExists"}

C31_FallbackOnlyIfUnsupported ==
    /\ (n_fn = "new_tempfile" /\ n_pc = "openat") => (n_first = None /\ n_tries = 0)
    /\ InNewTempfile =>
          /\ n_first \in TmpfileAnswers
          /\ FellBack <=> n_first = "OPNOTSUPP"
          /\ n_res # "OPNOTSUPP"
          /\ n_first = "ok" => (n_pc = "done" /\ n_res = "anonymous")
          /\ n_first = "EIO" => (n_pc = "done" /\ n_res = "EIO" /\ n_tries = 0)

\* The anonymous open was unsupported and the named file was created after a
\* collision.
C31_Witness ==
    /\ InNewTempfile
    /\ n_first = "OPNOTSUPP"
    /\ n_pc = "done"
    /\ n_res = "named"
    /\ n_tries = 2

\* Another error of the anonymous open was returned.
C31_WitnessError ==
    /\ InNewTempfile
    /\ n_first = "EIO"
    /\ n_res = "EIO"

\* ---------------------------------------------------------------------------
\* C32: in the loops of new_tempfile and generate_name_in a collision leads to
\* another turn with a new name; when every name collides the loop ends after
\* fewer turns than the counter has values, the counter never wrapping, with
\* AlreadyExists; any other error ends the loop at once and is returned.
C32_CollisionLoop ==
    /\ n_attempts <= U32Max
    /\ n_tries < U32Max
    /\ (n_pc = "loop" /\ n_tries > 0) => (n_last = "EEXIST" /\ n_attempts = n_tries)
    /\ (n_pc = "done" /\ n_res = "AlreadyExists") =>
          /\ n_tries = U32Max - 1
          /\ n_last = "EEXIST"
          /\ n_attempts = U32Max
    /\ (n_pc = "done" /\ n_res = "named") => n_last = "ok"
    /\ (n_pc = "done" /\ n_tries > 0 /\ n_res \notin {"named", "AlreadyExists"}) =>
          (n_last = n_res /\ n_res = "EIO")

\* Every name collided, in generate_name_in.
C32_Witness ==
    /\ n_fn = "generate_name_in"
    /\ n_pc = "done"
    /\ n_res = "AlreadyExists"
    /\ n_tries = U32Max - 1

\* An error that is no collision ended the loop of new_tempfile after a collision.
C32_WitnessError ==
    /\ n_fn = "new_tempfile"
    /\ n_pc = "done"
    /\ n_res = "EIO"
    /\ n_tries = 2

\* ---------------------------------------------------------------------------
\* C36 (as claimed): the creation strategy is chosen by one probe whose result
\* is kept for the lifetime of the process: once the anonymous open has been
\* found unsupported, later creations do not attempt it again.
C36_ProbedOnce == ~n_reprobe

\* C36 (amended): no result is kept: every call of new_tempfile attempts the
\* anonymous open before anything else, also after an earlier call of the
\* process found it unsupported.
C36_ProbedEveryCall ==
    (n_fn = "new_tempfile" /\ n_pc \in {"loop", "done"}) =>
        /\ n_first # None
        /\ n_unsupp => (n_reprobe \/ n_first = "OPNOTSUPP")

\* A second creation attempted the anonymous open after the first found it
\* unsupported, and this time it was supported.
C36_Witness ==
    /\ n_reprobe
    /\ n_fn = "new_tempfile"
    /\ n_pc = "done"
    /\ n_first = "ok"
    /\ n_res = "anonymous"

====
